---------------------------- MODULE Spec2Model ----------------------------
(***************************************************************************)
(* Parallel Pac-Man (src/main.py): the per-tick ghost update engine, the   *)
(* multiprocessing pool that runs it, and the Manager-hosted statistics    *)
(* dictionary that the workers and the game loop update with and without   *)
(* the Manager lock.                                                       *)
(***************************************************************************)
EXTENDS Integers, Sequences, FiniteSets, TLC

(***************************************************************************)
(* Program constants (src/main.py, CONFIGURATION).                         *)
(***************************************************************************)
GRID_W == 28
GRID_H == 20
NUM_GHOSTS == 4
GHOST_UPDATE_EVERY == 8
AI_WORK_MS == 80
\* generate_maze: the number of cells drawn at random
MAZE_DRAWS == 30
\* run: the length ai_times is cut to
WINDOW == 30

(***************************************************************************)
(* Bounds of the model.                                                    *)
(***************************************************************************)
\* mp.cpu_count() of the machine the game runs on
CpuCount == 2
\* ghost-update ticks dispatched in one run
MaxTicks == 2
\* key events (SPACE, L, U, R) handled in one run
MaxEvents == 2
\* parallel ticks whose wait ends in mp.TimeoutError
MaxTimeouts == 1
\* failures raised inside a lock-protected update
MaxFaults == 1
\* frames in which arrow keys are held down
MaxMoves == 0
\* key events, timeouts and failures in one run, taken together
MaxIncidents == 2
\* ticks of one run that take twice the time of the others
MaxSlow == 0
\* calls of bfs_pathfind in one chase
MaxCalls == 60
\* ghost-update ticks in one run in which the pool's workers are held up
MaxTimedTicks == 32
\* key events (SPACE, R) in such a run
MaxTimedEvents == 1
\* ticks of such a run that take twice the time of the others
MaxTimedSlow == 1
\* data rows of the CSV file the analysis tool reads
MaxRows == 3
\* ghost-update ticks in one run in which the player moves and the workers race
MaxMoveTicks == 1
\* frames of such a run in which arrow keys are held down
MaxMoveFrames == 1
\* ghost-update ticks in one run in which the counter of the store is followed
MaxRaceTicks == 2
\* presses of the workload keys in one run
MaxPresses == 50
\* ghost-update ticks in one run in which keys are pressed between the ticks
MaxToggleTicks == 2
\* key events in such a run
MaxToggleEvents == 3
\* frames of such a run in which arrow keys are held down
MaxToggleMoves == 1
\* ghost-update ticks in one run in which the ghosts reach the player while
\* tasks of a timed-out tick are still in the pool
MaxCatchTicks == 21
\* ghost-update ticks in one run in which the ghosts reach the player
MaxPlayTicks == 21
\* key events in such a run
MaxPlayEvents == 1
\* frames of such a run in which arrow keys are held down
MaxPlayMoves == 1

(***************************************************************************)
(* Maze (generate_maze with seed 100).                                     *)
(***************************************************************************)
\* the 30 cells drawn by random.randint after random.seed(100)
RandomWalls ==
  { <<6, 16>>, <<16, 7>>, <<24, 14>>, <<25, 13>>, <<15, 5>>, <<19, 5>>,
    <<4, 16>>, <<10, 3>>, <<23, 8>>, <<12, 9>>, <<11, 8>>, <<7, 6>>,
    <<8, 13>>, <<13, 15>>, <<8, 14>>, <<16, 10>>, <<14, 7>>, <<22, 5>>,
    <<7, 2>>, <<21, 14>>, <<6, 7>>, <<8, 7>>, <<2, 9>>, <<16, 14>>,
    <<6, 3>>, <<21, 9>>, <<24, 11>>, <<24, 12>>, <<18, 12>>, <<19, 13>> }

\* generate_maze without the test of the bottom row in the border loop
generate_maze_open_bottom(walls) ==
  [y \in 0..(GRID_H - 1) |->
    [x \in 0..(GRID_W - 1) |->
      IF x = GRID_W \div 2 /\ y = 0 THEN 0
      ELSE IF x = 0 \/ y = 0 \/ x = GRID_W - 1 THEN 1
      ELSE IF /\ y \in {r \in 3..(GRID_H - 4) : (r - 3) % 3 = 0}
              /\ x \in 2..(GRID_W - 3)
              /\ x % 5 # 0 THEN 1
      ELSE IF <<x, y>> \in walls THEN 1
      ELSE 0]]

\* the maze generate_maze returns when walls are the cells that random.randint
\* has drawn: the assignments of the source, the last one first
generate_maze(walls) ==
  [y \in 0..(GRID_H - 1) |->
    [x \in 0..(GRID_W - 1) |->
      IF x = GRID_W \div 2 /\ y = 0 THEN 0
      ELSE IF x = 0 \/ y = 0 \/ x = GRID_W - 1 \/ y = GRID_H - 1 THEN 1
      ELSE IF /\ y \in {r \in 3..(GRID_H - 4) : (r - 3) % 3 = 0}
              /\ x \in 2..(GRID_W - 3)
              /\ x % 5 # 0 THEN 1
      ELSE IF <<x, y>> \in walls THEN 1
      ELSE 0]]

MAZE == generate_maze(RandomWalls)

(***************************************************************************)
(* Pathfinding.                                                            *)
(***************************************************************************)
in_bounds(x, y) == 0 <= x /\ x < GRID_W /\ 0 <= y /\ y < GRID_H

Passable(x, y) == in_bounds(x, y) /\ MAZE[y][x] = 0

\* the four directions with the vertical ones first
DirectionsYFirst == << <<0, 1>>, <<0, -1>>, <<1, 0>>, <<-1, 0>> >>

\* the direction order of get_neighbors
Directions == << <<1, 0>>, <<-1, 0>>, <<0, 1>>, <<0, -1>> >>

\* the neighbours of (x, y) inside the grid, walls included
get_neighbors_in_grid(x, y) ==
  LET cand == [k \in 1..4 |-> <<x + Directions[k][1], y + Directions[k][2]>>]
  IN  SelectSeq(cand, LAMBDA c : in_bounds(c[1], c[2]))

\* the passable neighbours of (x, y), in enumeration order
get_neighbors(x, y) ==
  LET cand == [k \in 1..4 |-> <<x + Directions[k][1], y + Directions[k][2]>>]
  IN  SelectSeq(cand, LAMBDA c : Passable(c[1], c[2]))

\* Python's None, as the predecessor of the start cell
NoCell == <<-1, -1>>

\* came_from is the dict of predecessors, held as a table over the grid:
\* came_from[y][x] is the predecessor of (x, y), and Absent for a cell that is
\* not a key of the dict
Absent == <<-2, -2>>

EmptyDict == [y \in 0..(GRID_H - 1) |-> [x \in 0..(GRID_W - 1) |-> Absent]]

HasKey(came_from, c) == in_bounds(c[1], c[2]) /\ came_from[c[2]][c[1]] # Absent

\* the for loop over the neighbours of cur: came_from and queue after
\* neighbours k..Len(nbs) have been looked at
RECURSIVE bfs_visit(_, _, _, _, _)
bfs_visit(nbs, k, cur, came_from, queue) ==
  IF k > Len(nbs) THEN <<came_from, queue>>
  ELSE IF HasKey(came_from, nbs[k])
       THEN bfs_visit(nbs, k + 1, cur, came_from, queue)
       ELSE bfs_visit(nbs, k + 1, cur,
                      [came_from EXCEPT ![nbs[k][2]][nbs[k][1]] = cur],
                      Append(queue, nbs[k]))

\* the while loop over the queue. The deque is held as the cells of the current
\* distance (layer, popped from index k on) followed by the cells appended since
\* (next): popleft takes layer[k], append adds to next. The result is
\* <<came_from, next, found>>, found telling that the goal was popped (the break).
RECURSIVE bfs_layer(_, _, _, _, _)
bfs_layer(layer, k, next, came_from, goal) ==
  IF k > Len(layer) THEN <<came_from, next, FALSE>>
  ELSE LET cur == layer[k]
       IN  IF cur = goal THEN <<came_from, next, TRUE>>
           ELSE LET r == bfs_visit(get_neighbors(cur[1], cur[2]), 1, cur,
                                   came_from, next)
                \* (the test holds always: it has r worked out here, before
                \* the next cell is popped)
                IN  IF Len(r[2]) >= 0
                    THEN bfs_layer(layer, k + 1, r[2], r[1], goal)
                    ELSE <<r[1], r[2], FALSE>>

RECURSIVE bfs_search(_, _, _)
bfs_search(layer, came_from, goal) ==
  IF layer = <<>> THEN came_from
  ELSE LET r == bfs_layer(layer, 1, <<>>, came_from, goal)
       IN  IF r[3] THEN r[1] ELSE bfs_search(r[2], r[1], goal)

\* the backtracking loop: the cell whose predecessor is start
RECURSIVE bfs_backtrack(_, _, _)
bfs_backtrack(came_from, current, start) ==
  IF came_from[current[2]][current[1]] = start THEN current
  ELSE LET prev == came_from[current[2]][current[1]]
       IN  IF came_from[prev[2]][prev[1]] = NoCell THEN prev
           ELSE bfs_backtrack(came_from, prev, start)

\* the search without the backtracking loop: the cell the goal was reached from
bfs_pathfind_last_step(start, goal) ==
  IF start = goal THEN start
  ELSE LET came_from ==
             bfs_search(<<start>>,
                        [EmptyDict EXCEPT ![start[2]][start[1]] = NoCell], goal)
       IN  IF ~HasKey(came_from, goal) THEN start
           ELSE IF came_from[goal[2]][goal[1]] = start THEN goal
           ELSE came_from[goal[2]][goal[1]]

bfs_pathfind(start, goal) ==
  IF start = goal THEN start
  ELSE LET came_from ==
             bfs_search(<<start>>,
                        [EmptyDict EXCEPT ![start[2]][start[1]] = NoCell], goal)
       IN  IF ~HasKey(came_from, goal) THEN start
           ELSE bfs_backtrack(came_from, goal, start)

(***************************************************************************)
(* Game entities.                                                          *)
(***************************************************************************)
START_POSITIONS ==
  << <<1, 1>>, <<GRID_W - 2, 1>>,
     <<1, GRID_H - 2>>, <<GRID_W - 2, GRID_H - 2>>,
     <<GRID_W \div 2, 1>>, <<GRID_W \div 2, GRID_H - 2>> >>

\* Ghost.reset: the start cell of ghost i (ghosts are numbered from 1 here,
\* idx = i - 1 in the source)
GhostStart(i) == START_POSITIONS[((i - 1) % Len(START_POSITIONS)) + 1]

\* PacMan.reset
PacStart == <<GRID_W \div 2, GRID_H \div 2>>

\* Python's None, as a ghost's last_process_id
NoPid == -1

\* os.getpid() of the process that runs the game loop
MainPid == 0

\* main: the size of the pool
num_workers ==
  LET cpus == IF CpuCount > 1 THEN CpuCount ELSE 1
  IN  IF NUM_GHOSTS < cpus THEN NUM_GHOSTS ELSE cpus

\* os.getpid() of the pool's worker processes
Workers == 1..num_workers

Ghosts == 1..NUM_GHOSTS

\* PacMan.move
move(pac, dx, dy) ==
  LET nx == pac[1] + dx
      ny == pac[2] + dy
  IN  IF in_bounds(nx, ny) /\ MAZE[ny][nx] = 0 THEN <<nx, ny>> ELSE pac

\* handle_input: the four tests, in the order of the source
handle_input(pac, keys) ==
  LET p1 == IF "LEFT" \in keys THEN move(pac, -1, 0) ELSE pac
      p2 == IF "RIGHT" \in keys THEN move(p1, 1, 0) ELSE p1
      p3 == IF "UP" \in keys THEN move(p2, 0, -1) ELSE p2
      p4 == IF "DOWN" \in keys THEN move(p3, 0, 1) ELSE p3
  IN  p4

ArrowKeys == {"LEFT", "RIGHT", "UP", "DOWN"}

\* PacMan.move setting self.direction whether the player moves or not
move_direction_always(pac, dir, dx, dy) == <<dx, dy>>

\* PacMan.move: self.direction after the move, dir being the one before
move_direction(pac, dir, dx, dy) ==
  LET nx == pac[1] + dx
      ny == pac[2] + dy
  IN  IF in_bounds(nx, ny) /\ MAZE[ny][nx] = 0 THEN <<dx, dy>> ELSE dir

\* handle_input: self.pacman.direction after the four tests
input_direction(pac, dir, keys) ==
  LET p1 == IF "LEFT" \in keys THEN move(pac, -1, 0) ELSE pac
      d1 == IF "LEFT" \in keys THEN move_direction(pac, dir, -1, 0) ELSE dir
      p2 == IF "RIGHT" \in keys THEN move(p1, 1, 0) ELSE p1
      d2 == IF "RIGHT" \in keys THEN move_direction(p1, d1, 1, 0) ELSE d1
      p3 == IF "UP" \in keys THEN move(p2, 0, -1) ELSE p2
      d3 == IF "UP" \in keys THEN move_direction(p2, d2, 0, -1) ELSE d2
      d4 == IF "DOWN" \in keys THEN move_direction(p3, d3, 0, 1) ELSE d3
  IN  d4

BASE_PELLETS ==
  {c \in (0..(GRID_W - 1)) \X (0..(GRID_H - 1)) :
     MAZE[c[2]][c[1]] = 0 /\ ~(c[1] = GRID_W \div 2 /\ c[2] = 0)}

\* run: self.pellets.discard((self.pacman.x, self.pacman.y)), on the cells
\* eaten so far
discard(e, pac) == IF pac \in BASE_PELLETS THEN e \cup {pac} ELSE e

(***************************************************************************)
(* bfs_pathfind is a pure function of its arguments: its values on the     *)
(* cells the ghosts of a bounded run can visit are computed once, when the *)
(* run starts, and looked up.                                              *)
(***************************************************************************)
\* the cells other than the start that the player can be on after the first
\* frame in which arrow keys are held down
MovedGoals ==
  {handle_input(PacStart, keys) : keys \in SUBSET ArrowKeys} \ {PacStart}

\* the cells the player of a run with the bounds lim is chased to
ChaseGoals(lim) ==
  {PacStart} \cup (IF lim.moves > 0 THEN MovedGoals ELSE {})

\* cells and pairs of cells as numbers, the keys and the values of the table
CellNumber(c) == c[2] * GRID_W + c[1]

NumberedCell(n) == <<n % GRID_W, n \div GRID_W>>

PairNumber(start, goal) ==
  CellNumber(start) * (GRID_W * GRID_H) + CellNumber(goal)

\* the values of bfs_pathfind(c, g) for the cells c that ghosts on the cells
\* reach within n steps, each step towards one of the goals
RECURSIVE ChaseTable(_, _, _)
ChaseTable(cells, goals, n) ==
  IF n = 0 THEN <<>>
  ELSE LET steps ==
             [k \in {PairNumber(c, g) : c \in cells, g \in goals} |->
                CellNumber(bfs_pathfind(NumberedCell(k \div (GRID_W * GRID_H)),
                                        NumberedCell(k % (GRID_W * GRID_H))))]
               @@ <<>>
       IN  steps @@ ChaseTable({NumberedCell(steps[k]) : k \in DOMAIN steps},
                               goals, n - 1)

\* the table of a run with the bounds lim: its ghosts start on their start
\* cells and are updated at most lim.ticks times
ChaseCache(lim) ==
  ChaseTable({GhostStart(i) : i \in Ghosts}, ChaseGoals(lim), lim.ticks)

\* a run that never calls bfs_pathfind through the game has no table
NoChaseCache == <<>>

(***************************************************************************)
(* State.                                                                  *)
(***************************************************************************)
VARIABLES
  pc,            \* where the game loop (ParallelPacmanGame.run) is
  parallel,      \* self.parallel
  show_locks,    \* self.show_locks
  frame,         \* self.frame, modulo GHOST_UPDATE_EVERY
  si,            \* update_ghosts_sequential: the ghost being updated
  mcur,          \* the game loop's read of total_updates in a += 1
  mfailed,       \* the game loop's update raised inside "with self.lock"
  pacman,        \* (self.pacman.x, self.pacman.y)
  ghosts,        \* self.ghosts: position, last_process_id, update_count
  shared_stats,  \* the Manager dict
  lock,          \* the Manager lock: the processes that hold it
  taskq,         \* the pool's task queue
  wk,            \* the pool's worker processes
  job,           \* the map_async job update_ghosts_parallel waits for (0: none)
  results,       \* the results of that job that have arrived, by ghost
  used,          \* how much of each bound the run has used
  hist,          \* history of the run, for stating the properties
  ai_times,      \* self.ai_times, in milliseconds
  sequential_time, \* self.sequential_time
  parallel_time, \* self.parallel_time
  direction,     \* self.pacman.direction
  eaten,         \* the cells of BASE_PELLETS that are no longer in self.pellets
  ai_work_ms,    \* self.ai_work_ms
  limit,         \* the bounds of the run
  pf,            \* a chase by bfs_pathfind on its own: start, goal, position
  mz,            \* a run of generate_maze on its own
  an,            \* a run of the analysis tool (src/analytics.py)
  memo           \* the values of bfs_pathfind computed when the run starts

vars == <<pc, parallel, show_locks, frame, si, mcur, mfailed, pacman,
          ghosts, shared_stats, lock, taskq, wk, job, results, used, hist,
          ai_times, sequential_time, parallel_time, direction, eaten,
          ai_work_ms, limit, pf, mz, an, memo>>

\* the timings the game loop keeps
timing == <<ai_times, sequential_time, parallel_time>>

\* what the game does not touch: the bounds of the run and the stand-alone runs
\* of bfs_pathfind, of generate_maze and of the analysis tool
apart == <<limit, pf, mz, an, memo>>

\* bfs_pathfind(start, goal), looked up where the run's table has it
NextStep(start, goal) ==
  IF /\ in_bounds(start[1], start[2])
     /\ in_bounds(goal[1], goal[2])
     /\ PairNumber(start, goal) \in DOMAIN memo
  THEN NumberedCell(memo[PairNumber(start, goal)])
  ELSE bfs_pathfind(start, goal)

\* self.pellets
pellets == BASE_PELLETS \ eaten

NoTask == [job |-> 0, idx |-> 0, gpos |-> NoCell, ppos |-> NoCell, safe |-> TRUE]

IdleWorker ==
  [pc |-> "idle", task |-> NoTask, next_pos |-> NoCell, current |-> 0,
   pids |-> <<>>, failed |-> FALSE]

\* no chase by bfs_pathfind, no run of generate_maze and no run of the analysis
\* tool is looked at
NoChase ==
  [start |-> NoCell, goal |-> NoCell, cur |-> NoCell, calls |-> 0,
   done |-> TRUE]

NoMazeRun == [pc |-> "none", cells |-> {}, draws |-> 0, maze |-> <<>>]

NoAnalysis == [pc |-> "none"]

\* no tick is in progress: nothing is remembered of the start of one
NoSnap ==
  [pac |-> NoCell, gs |-> <<>>, counts |-> <<>>, total |-> 0, idle |-> TRUE]

\* the bounds of a run of the game in which the workers race; store tells
\* whether the history keeps the state of the store at the start of a tick
Limits ==
  [ticks |-> MaxTicks, events |-> MaxEvents, timeouts |-> MaxTimeouts,
   faults |-> MaxFaults, moves |-> MaxMoves, incidents |-> MaxIncidents,
   slow |-> MaxSlow, store |-> FALSE]

\* ParallelPacmanGame.__init__ (with Ghost.__init__ and PacMan.__init__)
GameConstructed ==
  /\ pc = "events"
  /\ parallel = TRUE
  /\ show_locks = TRUE
  /\ frame = 0
  /\ si = 0
  /\ mcur = 0
  /\ mfailed = FALSE
  /\ pacman = PacStart
  /\ direction = <<1, 0>>
  /\ eaten = {}
  /\ ai_work_ms = AI_WORK_MS
  /\ ghosts = [i \in Ghosts |->
                 [pos |-> GhostStart(i), last_process_id |-> NoPid,
                  update_count |-> 0]]
  /\ shared_stats = [total_updates |-> 0, process_ids |-> <<>>,
                     race_condition_risk |-> 0]
  /\ lock = {}
  /\ taskq = <<>>
  /\ wk = [w \in Workers |-> IdleWorker]
  /\ job = 0
  /\ results = <<>>
  /\ ai_times = <<>>
  /\ sequential_time = 0
  /\ parallel_time = 0
  /\ used = [ticks |-> 0, events |-> 0, timeouts |-> 0, faults |-> 0,
             moves |-> 0, slow |-> 0]
  /\ hist = [resetTick |-> 0, cleanReset |-> TRUE, faultSince |-> FALSE,
             nGuarded |-> 0, participants |-> {}, nUnguarded |-> 0,
             nSeq |-> 0, overlap |-> FALSE, staleLanded |-> FALSE,
             samples |-> <<>>, clearTick |-> 0, lastSeq |-> 0, lastPar |-> 0,
             timedOut |-> {}, appliedTick |-> 0, snap |-> NoSnap,
             collided |-> FALSE]

\* the game constructed, and nothing else looked at
Constructed ==
  /\ GameConstructed
  /\ pf = NoChase
  /\ mz = NoMazeRun
  /\ an = NoAnalysis

\* the game, as main starts it
Init ==
  /\ Constructed
  /\ limit = Limits
  /\ memo = ChaseCache(Limits)

\* the run may see one more key event, timeout or failure
MoreIncidents == used.events + used.timeouts + used.faults < limit.incidents

\* no task is queued or running in the pool
PoolIdle == taskq = <<>> /\ \A w \in Workers : wk[w].pc = "idle"

\* the history restarts when the store is reset
ResetHistOf(h) ==
  [h EXCEPT !.resetTick = used.ticks, !.cleanReset = PoolIdle,
            !.faultSince = FALSE, !.nGuarded = 0, !.participants = {},
            !.nUnguarded = 0, !.nSeq = 0, !.overlap = FALSE]

ResetHist == ResetHistOf([hist EXCEPT !.collided = FALSE])

(***************************************************************************)
(* The game loop: events.                                                  *)
(***************************************************************************)
\* reset_shared_stats, first assignment
reset_shared_stats ==
  /\ shared_stats' = [shared_stats EXCEPT !.total_updates = 0]
  /\ pc' = "reset2"

\* reset_shared_stats, second assignment
ResetProcessIds ==
  /\ pc = "reset2"
  /\ shared_stats' = [shared_stats EXCEPT !.process_ids = <<>>]
  /\ pc' = "reset3"
  /\ UNCHANGED <<parallel, show_locks, frame, si, mcur, mfailed, pacman,
                 ghosts, lock, taskq, wk, job, results, used, hist>>
  /\ UNCHANGED apart
  /\ UNCHANGED <<direction, eaten, ai_work_ms>>
  /\ UNCHANGED timing

\* reset_shared_stats, third assignment
ResetRaceRisk ==
  /\ pc = "reset3"
  /\ shared_stats' = [shared_stats EXCEPT !.race_condition_risk = 0]
  \* every caller returns to the top of the loop: handle_events
  /\ pc' = "events"
  /\ UNCHANGED <<parallel, show_locks, frame, si, mcur, mfailed, pacman,
                 ghosts, lock, taskq, wk, job, results, used, hist>>
  /\ UNCHANGED apart
  /\ UNCHANGED <<direction, eaten, ai_work_ms>>
  /\ UNCHANGED timing

KeyEvent ==
  /\ pc = "events"
  /\ used.events < limit.events
  /\ MoreIncidents
  /\ used' = [used EXCEPT !.events = @ + 1]

\* handle_events, K_SPACE clearing the timing window as well
KeySpaceClearingTimes ==
  /\ KeyEvent
  /\ parallel' = ~parallel
  /\ reset_shared_stats
  /\ hist' = ResetHist
  /\ UNCHANGED <<show_locks, frame, si, mcur, mfailed, pacman, ghosts, lock,
                 taskq, wk, job, results>>
  /\ UNCHANGED apart
  /\ UNCHANGED <<direction, eaten, ai_work_ms>>
  /\ ai_times' = <<>>
  /\ UNCHANGED <<sequential_time, parallel_time>>

\* handle_events, K_SPACE
KeySpace ==
  /\ KeyEvent
  /\ parallel' = ~parallel
  /\ reset_shared_stats
  /\ hist' = ResetHist
  /\ UNCHANGED <<show_locks, frame, si, mcur, mfailed, pacman, ghosts, lock,
                 taskq, wk, job, results>>
  /\ UNCHANGED apart
  /\ UNCHANGED <<direction, eaten, ai_work_ms>>
  /\ UNCHANGED timing

\* handle_events, K_l
KeyL ==
  /\ KeyEvent
  /\ show_locks' = ~show_locks
  /\ reset_shared_stats
  /\ hist' = ResetHist
  /\ UNCHANGED <<parallel, frame, si, mcur, mfailed, pacman, ghosts, lock,
                 taskq, wk, job, results>>
  /\ UNCHANGED apart
  /\ UNCHANGED <<direction, eaten, ai_work_ms>>
  /\ UNCHANGED timing

\* handle_events, K_u
KeyU ==
  /\ KeyEvent
  /\ show_locks' = FALSE
  /\ reset_shared_stats
  /\ hist' = ResetHist
  /\ UNCHANGED <<parallel, frame, si, mcur, mfailed, pacman, ghosts, lock,
                 taskq, wk, job, results>>
  /\ UNCHANGED apart
  /\ UNCHANGED <<direction, eaten, ai_work_ms>>
  /\ UNCHANGED timing

\* reset_game, up to the first assignment of reset_shared_stats; gs are the
\* ghosts and h the history as the frame has left them. self.ai_times.clear()
\* comes after reset_shared_stats in the source; only the game loop reads or
\* writes ai_times, so it is cleared in the same step here.
reset_game(gs, h) ==
  /\ pacman' = PacStart
  /\ direction' = <<1, 0>>
  /\ eaten' = {}
  /\ ghosts' = [i \in Ghosts |->
                  [gs[i] EXCEPT !.pos = GhostStart(i), !.update_count = 0]]
  /\ reset_shared_stats
  /\ ai_times' = <<>>
  /\ hist' = [ResetHistOf(h) EXCEPT !.samples = <<>>,
                                    !.clearTick = used.ticks]

\* handle_events, K_r
KeyR ==
  /\ KeyEvent
  /\ reset_game(ghosts, [hist EXCEPT !.collided = FALSE])
  /\ UNCHANGED <<parallel, show_locks, frame, si, mcur, mfailed, lock, taskq,
                 wk, job, results>>
  /\ UNCHANGED apart
  /\ UNCHANGED ai_work_ms
  /\ UNCHANGED <<sequential_time, parallel_time>>

\* handle_events, K_PLUS written without the cap:
\* self.ai_work_ms = self.ai_work_ms + 10
KeyPlusUncapped ==
  /\ KeyEvent
  /\ ai_work_ms' = ai_work_ms + 10
  /\ UNCHANGED <<pc, parallel, show_locks, frame, si, mcur, mfailed, pacman,
                 ghosts, shared_stats, lock, taskq, wk, job, results, hist>>
  /\ UNCHANGED apart
  /\ UNCHANGED <<direction, eaten>>
  /\ UNCHANGED timing

\* handle_events, K_PLUS, K_KP_PLUS or K_EQUALS:
\* self.ai_work_ms = min(500, self.ai_work_ms + 10)
KeyPlus ==
  /\ KeyEvent
  /\ ai_work_ms' = IF ai_work_ms + 10 < 500 THEN ai_work_ms + 10 ELSE 500
  /\ UNCHANGED <<pc, parallel, show_locks, frame, si, mcur, mfailed, pacman,
                 ghosts, shared_stats, lock, taskq, wk, job, results, hist>>
  /\ UNCHANGED apart
  /\ UNCHANGED <<direction, eaten>>
  /\ UNCHANGED timing

\* handle_events, K_MINUS or K_KP_MINUS:
\* self.ai_work_ms = max(0, self.ai_work_ms - 10)
KeyMinus ==
  /\ KeyEvent
  /\ ai_work_ms' = IF ai_work_ms - 10 > 0 THEN ai_work_ms - 10 ELSE 0
  /\ UNCHANGED <<pc, parallel, show_locks, frame, si, mcur, mfailed, pacman,
                 ghosts, shared_stats, lock, taskq, wk, job, results, hist>>
  /\ UNCHANGED apart
  /\ UNCHANGED <<direction, eaten>>
  /\ UNCHANGED timing

(***************************************************************************)
(* The game loop: one frame.                                               *)
(***************************************************************************)
\* run, from handle_input to the test of self.frame, in a frame in which the
\* ghosts are updated; keys are the arrow keys held in it. A frame in which no
\* event arrives, no arrow key is held and the ghosts are not updated changes
\* self.frame alone, which only the loop reads: the frames of that kind that
\* come before this one are counted into this step, with the pellet they
\* discard at the cell the player stands on.
TickFrame(keys) ==
  /\ pc = "events"
  /\ keys \subseteq ArrowKeys
  /\ keys # {} => used.moves < limit.moves
  /\ used.ticks < limit.ticks
  /\ \E idle \in 0..(GHOST_UPDATE_EVERY - 1) :
       /\ (frame + idle + 1) % GHOST_UPDATE_EVERY = 0
       /\ frame' = (frame + idle + 1) % GHOST_UPDATE_EVERY
       /\ eaten' = discard(IF idle > 0 THEN discard(eaten, pacman) ELSE eaten,
                           handle_input(pacman, keys))
  /\ direction' = input_direction(pacman, direction, keys)

\* check_collisions, with the player at pac facing dir, the cells e eaten, the
\* ghosts gs, the timings times
\* and the history h; the frame ends and the loop is back at handle_events
check_collisions(pac, dir, e, gs, times, h) ==
  IF \E i \in Ghosts : gs[i].pos = pac
  THEN reset_game(gs, [h EXCEPT !.collided = TRUE])
  ELSE /\ pacman' = pac
       /\ direction' = dir
       /\ eaten' = e
       /\ ghosts' = gs
       /\ pc' = "events"
       /\ ai_times' = times
       /\ hist' = h
       /\ UNCHANGED shared_stats

\* run, a frame without a ghost update in which arrow keys are held down,
\* after idle frames without keys: handle_input, the pellet of the player's
\* cell is eaten, the frame is counted and check_collisions ends it
MoveFrame(keys) ==
  /\ pc = "events"
  /\ keys \subseteq ArrowKeys
  /\ keys # {}
  /\ used.moves < limit.moves
  /\ \E idle \in 0..(GHOST_UPDATE_EVERY - 2) :
       /\ frame + idle + 1 < GHOST_UPDATE_EVERY
       /\ frame' = frame + idle + 1
       /\ check_collisions(handle_input(pacman, keys),
            input_direction(pacman, direction, keys),
            discard(IF idle > 0 THEN discard(eaten, pacman) ELSE eaten,
                    handle_input(pacman, keys)),
            ghosts, ai_times, hist)
  /\ used' = [used EXCEPT !.moves = @ + 1]
  /\ UNCHANGED <<parallel, show_locks, si, mcur, mfailed, lock, taskq, wk,
                 job, results>>
  /\ UNCHANGED apart
  /\ UNCHANGED ai_work_ms
  /\ UNCHANGED <<sequential_time, parallel_time>>

\* time.perf_counter() - t0, in milliseconds: the time a tick has taken
Durations == {10 * k : k \in 1..(IF used.slow < limit.slow THEN 2 ELSE 1)}

SlowUsed(d) == IF d > 10 THEN used.slow + 1 ELSE used.slow

\* the append with the newest sample dropped when the list is full
append_time_drop_newest(times, d) ==
  LET appended == Append(times, d)
  IN  IF Len(appended) > WINDOW THEN SubSeq(appended, 1, WINDOW) ELSE appended

\* run: self.ai_times.append(ai_time) and the pop(0) that follows it
append_time(times, d) ==
  LET appended == Append(times, d)
  IN  IF Len(appended) > WINDOW THEN Tail(appended) ELSE appended

\* max(1, NUM_GHOSTS * 0.5), doubled
TwiceHalfGhosts == IF NUM_GHOSTS > 2 THEN NUM_GHOSTS ELSE 2

\* run, from ai_time = ... to the end of the frame, after a tick that has taken
\* d milliseconds and has left the ghosts gs: the sample is recorded, the times
\* for the speedup are tracked and the frame ends with check_collisions. The
\* times are multiples of 10, so the products by 0.8 and 0.5 are whole.
end_of_tick(gs, d, h) ==
  /\ IF parallel
     THEN /\ parallel_time' = d
          /\ sequential_time' = IF sequential_time = 0
                                THEN (d * NUM_GHOSTS * 8) \div 10
                                ELSE sequential_time
     ELSE /\ sequential_time' = d
          /\ parallel_time' = IF parallel_time = 0
                              THEN (2 * d) \div TwiceHalfGhosts
                              ELSE parallel_time
  /\ check_collisions(pacman, direction, eaten, gs, append_time(ai_times, d),
       [h EXCEPT !.snap = NoSnap,
                 !.samples = Append(@, d),
                 !.lastSeq = IF parallel THEN @ ELSE d,
                 !.lastPar = IF parallel THEN d ELSE @])

\* get_game_state, 'speedup': the fraction <<numerator, denominator>>
speedup ==
  IF sequential_time > 0 /\ parallel_time > 0
  THEN <<sequential_time, parallel_time>>
  ELSE <<0, 1>>

\* Renderer.draw_info_panel: the efficiency shown with the speedup, in percent,
\* as the fraction <<numerator, denominator>>
efficiency ==
  LET actual_speedup == <<sequential_time, parallel_time>>
      theoretical_speedup == NUM_GHOSTS
  IN  <<actual_speedup[1] * 100, actual_speedup[2] * theoretical_speedup>>

MovesUsed(keys) == IF keys = {} THEN used.moves ELSE used.moves + 1

\* what a tick starts from, the player being at pac: the positions and the
\* update counts and, in the runs that keep them (limit.store), the counter of
\* the store and whether the pool has no work left from earlier ticks
TickStart(pac) ==
  [pac |-> pac, gs |-> [i \in Ghosts |-> ghosts[i].pos],
   counts |-> [i \in Ghosts |-> ghosts[i].update_count],
   total |-> IF limit.store THEN shared_stats.total_updates ELSE 0,
   idle |-> IF limit.store THEN PoolIdle ELSE TRUE]

\* the tasks built with the player's position of the frame before
update_ghosts_parallel_stale_target(keys) ==
  /\ TickFrame(keys)
  /\ parallel
  /\ taskq' = taskq \o
       [i \in Ghosts |->
          [job |-> used.ticks + 1, idx |-> i, gpos |-> ghosts[i].pos,
           ppos |-> pacman, safe |-> show_locks]]
  /\ job' = used.ticks + 1
  /\ results' = <<>>
  /\ pc' = "wait"
  /\ pacman' = handle_input(pacman, keys)
  /\ used' = [used EXCEPT !.ticks = @ + 1, !.moves = MovesUsed(keys)]
  /\ hist' = [hist EXCEPT !.snap = TickStart(handle_input(pacman, keys))]
  /\ UNCHANGED <<parallel, show_locks, si, mcur, mfailed, ghosts,
                 shared_stats, lock, wk>>
  /\ UNCHANGED apart
  /\ UNCHANGED ai_work_ms
  /\ UNCHANGED timing

\* update_ghosts_parallel, up to pool.map_async: one task per ghost, with the
\* positions of this moment as its arguments
update_ghosts_parallel(keys) ==
  /\ TickFrame(keys)
  /\ parallel
  /\ taskq' = taskq \o
       [i \in Ghosts |->
          [job |-> used.ticks + 1, idx |-> i, gpos |-> ghosts[i].pos,
           ppos |-> handle_input(pacman, keys), safe |-> show_locks]]
  /\ job' = used.ticks + 1
  /\ results' = <<>>
  /\ pc' = "wait"
  /\ pacman' = handle_input(pacman, keys)
  /\ used' = [used EXCEPT !.ticks = @ + 1, !.moves = MovesUsed(keys)]
  /\ hist' = [hist EXCEPT !.snap = TickStart(handle_input(pacman, keys))]
  /\ UNCHANGED <<parallel, show_locks, si, mcur, mfailed, ghosts,
                 shared_stats, lock, wk>>
  /\ UNCHANGED apart
  /\ UNCHANGED ai_work_ms
  /\ UNCHANGED timing

\* the zip loop of update_ghosts_parallel
ApplyResults(gs, res) ==
  [i \in Ghosts |->
     [pos |-> res[i].next_pos, last_process_id |-> res[i].process_id,
      update_count |-> gs[i].update_count + 1]]

\* async_result.get returns: every task of the job has delivered its result.
\* The results are applied and the frame ends with check_collisions.
Collect ==
  /\ pc = "wait"
  /\ DOMAIN results = Ghosts
  /\ IF \A i \in Ghosts : results[i].ok
     THEN \E d \in Durations :
            /\ end_of_tick(ApplyResults(ghosts, results), d,
                 [hist EXCEPT !.appliedTick = job])
            /\ used' = [used EXCEPT !.slow = SlowUsed(d)]
     ELSE \* get re-raises the exception of a failed task, and only
          \* mp.TimeoutError is caught
          /\ pc' = "crashed"
          /\ UNCHANGED <<pacman, direction, eaten, ghosts, shared_stats,
                         hist, used>>
          /\ UNCHANGED timing
  /\ job' = 0
  /\ results' = <<>>
  /\ UNCHANGED <<parallel, show_locks, frame, si, mcur, mfailed, lock, taskq,
                 wk>>
  /\ UNCHANGED apart
  /\ UNCHANGED ai_work_ms

\* the timeout with the results that have arrived applied to their ghosts
TimeoutApplyingArrived ==
  /\ pc = "wait"
  /\ DOMAIN results # Ghosts
  /\ used.timeouts < limit.timeouts
  /\ MoreIncidents
  /\ \E d \in Durations :
       /\ end_of_tick(
            [i \in Ghosts |->
               IF i \in DOMAIN results /\ results[i].ok
               THEN [pos |-> results[i].next_pos,
                     last_process_id |-> results[i].process_id,
                     update_count |-> ghosts[i].update_count + 1]
               ELSE ghosts[i]], d,
            [hist EXCEPT !.timedOut = @ \cup {job}])
       /\ used' = [used EXCEPT !.timeouts = @ + 1, !.slow = SlowUsed(d)]
  /\ job' = 0
  /\ results' = <<>>
  /\ UNCHANGED <<parallel, show_locks, frame, si, mcur, mfailed, lock, taskq,
                 wk>>
  /\ UNCHANGED apart
  /\ UNCHANGED ai_work_ms

\* async_result.get raises mp.TimeoutError: some task has not delivered
Timeout ==
  /\ pc = "wait"
  /\ DOMAIN results # Ghosts
  /\ used.timeouts < limit.timeouts
  /\ MoreIncidents
  /\ \E d \in Durations :
       /\ end_of_tick(ghosts, d,
            [hist EXCEPT !.timedOut = @ \cup {job}])
       /\ used' = [used EXCEPT !.timeouts = @ + 1, !.slow = SlowUsed(d)]
  /\ job' = 0
  /\ results' = <<>>
  /\ UNCHANGED <<parallel, show_locks, frame, si, mcur, mfailed, lock, taskq,
                 wk>>
  /\ UNCHANGED apart
  /\ UNCHANGED ai_work_ms

\* update_ghosts_sequential is entered
update_ghosts_sequential(keys) ==
  /\ TickFrame(keys)
  /\ ~parallel
  /\ pc' = "seq"
  /\ si' = 1
  /\ pacman' = handle_input(pacman, keys)
  /\ used' = [used EXCEPT !.ticks = @ + 1, !.moves = MovesUsed(keys)]
  /\ hist' = [hist EXCEPT !.snap = TickStart(handle_input(pacman, keys))]
  /\ UNCHANGED <<parallel, show_locks, mcur, mfailed, ghosts,
                 shared_stats, lock, taskq, wk, job, results>>
  /\ UNCHANGED apart
  /\ UNCHANGED ai_work_ms
  /\ UNCHANGED timing

\* update_ghosts_sequential, one ghost: the move
SeqMove ==
  /\ pc = "seq"
  /\ si <= NUM_GHOSTS
  /\ ghosts' = [ghosts EXCEPT ![si] =
       [pos |-> NextStep(ghosts[si].pos, pacman),
        last_process_id |-> MainPid,
        update_count |-> ghosts[si].update_count + 1]]
  /\ pc' = IF show_locks THEN "seq_acquire" ELSE "seq_read"
  /\ hist' = [hist EXCEPT !.nSeq = @ + 1]
  /\ UNCHANGED <<parallel, show_locks, frame, si, mcur, mfailed, pacman,
                 shared_stats, lock, taskq, wk, job, results, used>>
  /\ UNCHANGED apart
  /\ UNCHANGED <<direction, eaten, ai_work_ms>>
  /\ UNCHANGED timing

\* with self.lock: entered
SeqAcquire ==
  /\ pc = "seq_acquire"
  /\ lock = {}
  /\ lock' = {MainPid}
  /\ pc' = "seq_read"
  /\ UNCHANGED <<parallel, show_locks, frame, si, mcur, mfailed, pacman,
                 ghosts, shared_stats, taskq, wk, job, results, used, hist>>
  /\ UNCHANGED apart
  /\ UNCHANGED <<direction, eaten, ai_work_ms>>
  /\ UNCHANGED timing

\* self.shared_stats['total_updates'] += 1: the read
SeqRead ==
  /\ pc = "seq_read"
  /\ mcur' = shared_stats.total_updates
  /\ pc' = "seq_write"
  /\ UNCHANGED <<parallel, show_locks, frame, si, mfailed, pacman,
                 ghosts, shared_stats, lock, taskq, wk, job, results, used,
                 hist>>
  /\ UNCHANGED apart
  /\ UNCHANGED <<direction, eaten, ai_work_ms>>
  /\ UNCHANGED timing

\* the loop of update_ghosts_sequential goes to the next ghost
SeqNext ==
  /\ si' = si + 1
  /\ pc' = "seq"

\* update_ghosts_sequential without its else branch: total_updates is
\* incremented only under the lock
SeqWriteLockedOnly ==
  /\ pc = "seq_write"
  /\ shared_stats' = [shared_stats EXCEPT !.total_updates =
                        IF show_locks THEN mcur + 1 ELSE @]
  /\ mcur' = 0
  /\ IF show_locks
     THEN pc' = "seq_release" /\ UNCHANGED si
     ELSE SeqNext
  /\ UNCHANGED <<parallel, show_locks, frame, mfailed, pacman, ghosts,
                 lock, taskq, wk, job, results, used, hist>>
  /\ UNCHANGED apart
  /\ UNCHANGED <<direction, eaten, ai_work_ms>>
  /\ UNCHANGED timing

\* self.shared_stats['total_updates'] += 1: the write
SeqWrite ==
  /\ pc = "seq_write"
  /\ shared_stats' = [shared_stats EXCEPT !.total_updates = mcur + 1]
  /\ mcur' = 0
  /\ IF show_locks
     THEN pc' = "seq_release" /\ UNCHANGED si
     ELSE SeqNext
  /\ UNCHANGED <<parallel, show_locks, frame, mfailed, pacman, ghosts,
                 lock, taskq, wk, job, results, used, hist>>
  /\ UNCHANGED apart
  /\ UNCHANGED <<direction, eaten, ai_work_ms>>
  /\ UNCHANGED timing

\* an exception inside "with self.lock"
SeqFail ==
  /\ pc \in {"seq_read", "seq_write"}
  /\ show_locks
  /\ used.faults < limit.faults
  /\ MoreIncidents
  /\ mfailed' = TRUE
  /\ mcur' = 0
  /\ pc' = "seq_release"
  /\ used' = [used EXCEPT !.faults = @ + 1]
  /\ hist' = [hist EXCEPT !.faultSince = TRUE]
  /\ UNCHANGED <<parallel, show_locks, frame, si, pacman, ghosts,
                 shared_stats, lock, taskq, wk, job, results>>
  /\ UNCHANGED apart
  /\ UNCHANGED <<direction, eaten, ai_work_ms>>
  /\ UNCHANGED timing

\* with self.lock: left, normally or by the exception, which nothing catches
SeqRelease ==
  /\ pc = "seq_release"
  /\ lock' = lock \ {MainPid}
  /\ IF mfailed
     THEN pc' = "crashed" /\ UNCHANGED <<si, hist>>
     ELSE /\ SeqNext
          /\ hist' = [hist EXCEPT !.nGuarded = @ + 1,
                                  !.participants = @ \cup {MainPid}]
  /\ UNCHANGED <<parallel, show_locks, frame, mcur, mfailed, pacman,
                 ghosts, shared_stats, taskq, wk, job, results, used>>
  /\ UNCHANGED apart
  /\ UNCHANGED <<direction, eaten, ai_work_ms>>
  /\ UNCHANGED timing

\* update_ghosts_sequential returns, and the frame ends with check_collisions
SeqDone ==
  /\ pc = "seq"
  /\ si > NUM_GHOSTS
  /\ si' = 0
  /\ \E d \in Durations :
       /\ end_of_tick(ghosts, d, hist)
       /\ used' = [used EXCEPT !.slow = SlowUsed(d)]
  /\ UNCHANGED <<parallel, show_locks, frame, mcur, mfailed, lock, taskq, wk,
                 job, results>>
  /\ UNCHANGED apart
  /\ UNCHANGED ai_work_ms

(***************************************************************************)
(* The pool's workers.                                                     *)
(***************************************************************************)
\* the game has not ended: the pool is terminated when run is left
Alive == pc # "crashed"

\* a write to the Manager dict by worker w lands after a reset that came after
\* its task was dispatched
Stale(w) == wk[w].task.job <= hist.resetTick

NoteWrite(w) == [hist EXCEPT !.staleLanded = @ \/ Stale(w)]

\* a worker takes the next task from the queue and runs the worker function up
\* to its first access to the shared objects: simulate_heavy_computation and
\* bfs_pathfind on the task's arguments
Take(w) ==
  /\ Alive
  /\ wk[w].pc = "idle"
  /\ taskq # <<>>
  /\ LET t == Head(taskq)
     IN  wk' = [wk EXCEPT ![w] =
           [IdleWorker EXCEPT !.pc = IF t.safe THEN "acquire" ELSE "u_read",
                              !.task = t,
                              !.next_pos = NextStep(t.gpos, t.ppos)]]
  /\ taskq' = Tail(taskq)
  /\ UNCHANGED <<pc, parallel, show_locks, frame, si, mcur, mfailed,
                 pacman, ghosts, shared_stats, lock, job, results, used, hist>>
  /\ UNCHANGED apart
  /\ UNCHANGED <<direction, eaten, ai_work_ms>>
  /\ UNCHANGED timing

\* the outcome of worker w
Outcome(w) ==
  [next_pos |-> wk[w].next_pos, process_id |-> w,
   ghost_pos |-> wk[w].task.gpos, ok |-> ~wk[w].failed,
   job |-> wk[w].task.job]

\* a pool that yields outcomes as they complete (imap_unordered): the outcome
\* takes the next free place of the job's results
ReturnInArrivalOrder(w) ==
  /\ results' =
       IF wk[w].task.job = job
       THEN results @@ ((Cardinality(DOMAIN results) + 1) :> Outcome(w))
       ELSE results
  /\ wk' = [wk EXCEPT ![w] = IdleWorker]

\* a pool that hands every outcome to the job the game loop is waiting for,
\* whichever job the task belongs to
ReturnToAnyJob(w) ==
  /\ results' = IF job # 0
                THEN (wk[w].task.idx :> Outcome(w)) @@ results
                ELSE results
  /\ wk' = [wk EXCEPT ![w] = IdleWorker]

\* the worker function returns (or raises) and the pool hands the outcome to
\* the job it belongs to; nothing reads the outcome of an abandoned job
Return(w) ==
  /\ results' =
       IF wk[w].task.job = job
       THEN results @@ (wk[w].task.idx :> Outcome(w))
       ELSE results
  /\ wk' = [wk EXCEPT ![w] = IdleWorker]

\* ghost_ai_worker_safe with a lock that does not exclude: the block is entered
\* whoever holds the lock
AcquireUnlocked(w) ==
  /\ Alive
  /\ wk[w].pc = "acquire"
  /\ lock' = lock \cup {w}
  /\ wk' = [wk EXCEPT ![w].pc = "s_read"]
  /\ UNCHANGED <<pc, parallel, show_locks, frame, si, mcur, mfailed,
                 pacman, ghosts, shared_stats, taskq, job, results, used, hist>>
  /\ UNCHANGED apart
  /\ UNCHANGED <<direction, eaten, ai_work_ms>>
  /\ UNCHANGED timing

\* ghost_ai_worker_safe, "with lock:" entered
Acquire(w) ==
  /\ Alive
  /\ wk[w].pc = "acquire"
  /\ lock = {}
  /\ lock' = {w}
  /\ wk' = [wk EXCEPT ![w].pc = "s_read"]
  /\ UNCHANGED <<pc, parallel, show_locks, frame, si, mcur, mfailed,
                 pacman, ghosts, shared_stats, taskq, job, results, used, hist>>
  /\ UNCHANGED apart
  /\ UNCHANGED <<direction, eaten, ai_work_ms>>
  /\ UNCHANGED timing

\* ghost_ai_worker_safe, shared_stats['total_updates'] += 1: the read
SafeRead(w) ==
  /\ Alive
  /\ wk[w].pc = "s_read"
  /\ wk' = [wk EXCEPT ![w].pc = "s_write",
                      ![w].current = shared_stats.total_updates]
  /\ UNCHANGED <<pc, parallel, show_locks, frame, si, mcur, mfailed,
                 pacman, ghosts, shared_stats, lock, taskq, job, results,
                 used, hist>>
  /\ UNCHANGED apart
  /\ UNCHANGED <<direction, eaten, ai_work_ms>>
  /\ UNCHANGED timing

\* ghost_ai_worker_safe, shared_stats['total_updates'] += 1: the write
SafeWrite(w) ==
  /\ Alive
  /\ wk[w].pc = "s_write"
  /\ shared_stats' = [shared_stats EXCEPT !.total_updates = wk[w].current + 1]
  /\ wk' = [wk EXCEPT ![w].pc = "s_pids", ![w].current = 0]
  /\ hist' = NoteWrite(w)
  /\ UNCHANGED <<pc, parallel, show_locks, frame, si, mcur, mfailed,
                 pacman, ghosts, lock, taskq, job, results, used>>
  /\ UNCHANGED apart
  /\ UNCHANGED <<direction, eaten, ai_work_ms>>
  /\ UNCHANGED timing

\* x occurs in the list s
InList(x, s) == \E k \in 1..Len(s) : s[k] = x

\* ghost_ai_worker_safe, pids = shared_stats.get('process_ids', []) and the
\* test "pid not in pids"
SafeGetPids(w) ==
  /\ Alive
  /\ wk[w].pc = "s_pids"
  /\ LET pids == shared_stats.process_ids
     IN  wk' = [wk EXCEPT ![w].pc = IF InList(w, pids) THEN "release"
                                    ELSE "s_putpids",
                          ![w].pids = IF InList(w, pids) THEN <<>> ELSE pids]
  /\ UNCHANGED <<pc, parallel, show_locks, frame, si, mcur, mfailed,
                 pacman, ghosts, shared_stats, lock, taskq, job, results,
                 used, hist>>
  /\ UNCHANGED apart
  /\ UNCHANGED <<direction, eaten, ai_work_ms>>
  /\ UNCHANGED timing

\* ghost_ai_worker_safe, shared_stats['process_ids'] = pids + [pid]
SafePutPids(w) ==
  /\ Alive
  /\ wk[w].pc = "s_putpids"
  /\ shared_stats' = [shared_stats EXCEPT
                        !.process_ids = Append(wk[w].pids, w)]
  /\ wk' = [wk EXCEPT ![w].pc = "release", ![w].pids = <<>>]
  /\ hist' = NoteWrite(w)
  /\ UNCHANGED <<pc, parallel, show_locks, frame, si, mcur, mfailed,
                 pacman, ghosts, lock, taskq, job, results, used>>
  /\ UNCHANGED apart
  /\ UNCHANGED <<direction, eaten, ai_work_ms>>
  /\ UNCHANGED timing

\* an exception inside the "with lock:" block of ghost_ai_worker_safe
SafeFail(w) ==
  /\ Alive
  /\ wk[w].pc \in {"s_read", "s_write", "s_pids", "s_putpids"}
  /\ used.faults < limit.faults
  /\ MoreIncidents
  /\ wk' = [wk EXCEPT ![w].pc = "release", ![w].failed = TRUE,
                      ![w].current = 0, ![w].pids = <<>>]
  /\ used' = [used EXCEPT !.faults = @ + 1]
  /\ hist' = [hist EXCEPT !.faultSince = TRUE]
  /\ UNCHANGED <<pc, parallel, show_locks, frame, si, mcur, mfailed,
                 pacman, ghosts, shared_stats, lock, taskq, job, results>>
  /\ UNCHANGED apart
  /\ UNCHANGED <<direction, eaten, ai_work_ms>>
  /\ UNCHANGED timing

\* ghost_ai_worker_safe with lock.acquire() and lock.release() around the
\* block instead of "with lock:": an exception skips the release
ReleaseUnlessFailed(w) ==
  /\ Alive
  /\ wk[w].pc = "release"
  /\ lock' = IF wk[w].failed THEN lock ELSE lock \ {w}
  /\ Return(w)
  /\ hist' = IF wk[w].failed THEN hist
             ELSE [hist EXCEPT !.nGuarded = @ + 1,
                                              !.participants = @ \cup {w}]
  /\ UNCHANGED <<pc, parallel, show_locks, frame, si, mcur, mfailed,
                 pacman, ghosts, shared_stats, taskq, job, used>>
  /\ UNCHANGED apart
  /\ UNCHANGED <<direction, eaten, ai_work_ms>>
  /\ UNCHANGED timing

\* ghost_ai_worker_safe, "with lock:" left, normally or by an exception, and
\* the function returns
Release(w) ==
  /\ Alive
  /\ wk[w].pc = "release"
  /\ lock' = lock \ {w}
  /\ Return(w)
  /\ hist' = IF wk[w].failed THEN hist
             ELSE [hist EXCEPT !.nGuarded = @ + 1,
                                              !.participants = @ \cup {w}]
  /\ UNCHANGED <<pc, parallel, show_locks, frame, si, mcur, mfailed,
                 pacman, ghosts, shared_stats, taskq, job, used>>
  /\ UNCHANGED apart
  /\ UNCHANGED <<direction, eaten, ai_work_ms>>
  /\ UNCHANGED timing

\* ghost_ai_worker_unsafe, current = shared_stats['total_updates']
UnsafeRead(w) ==
  /\ Alive
  /\ wk[w].pc = "u_read"
  /\ wk' = [wk EXCEPT ![w].pc = "u_write",
                      ![w].current = shared_stats.total_updates]
  /\ hist' = [hist EXCEPT !.overlap =
                @ \/ \E v \in Workers \ {w} : wk[v].pc = "u_write"]
  /\ UNCHANGED <<pc, parallel, show_locks, frame, si, mcur, mfailed,
                 pacman, ghosts, shared_stats, lock, taskq, job, results,
                 used>>
  /\ UNCHANGED apart
  /\ UNCHANGED <<direction, eaten, ai_work_ms>>
  /\ UNCHANGED timing

\* ghost_ai_worker_unsafe writing back the value it read:
\* shared_stats['total_updates'] = current
UnsafeWriteSame(w) ==
  /\ Alive
  /\ wk[w].pc = "u_write"
  /\ shared_stats' = [shared_stats EXCEPT !.total_updates = wk[w].current]
  /\ wk' = [wk EXCEPT ![w].pc = "u_risk_read", ![w].current = 0]
  /\ hist' = NoteWrite(w)
  /\ UNCHANGED <<pc, parallel, show_locks, frame, si, mcur, mfailed,
                 pacman, ghosts, lock, taskq, job, results, used>>
  /\ UNCHANGED apart
  /\ UNCHANGED <<direction, eaten, ai_work_ms>>
  /\ UNCHANGED timing

\* ghost_ai_worker_unsafe counting an update twice:
\* shared_stats['total_updates'] = current + 2
UnsafeWriteTwice(w) ==
  /\ Alive
  /\ wk[w].pc = "u_write"
  /\ shared_stats' = [shared_stats EXCEPT !.total_updates = wk[w].current + 2]
  /\ wk' = [wk EXCEPT ![w].pc = "u_risk_read", ![w].current = 0]
  /\ hist' = NoteWrite(w)
  /\ UNCHANGED <<pc, parallel, show_locks, frame, si, mcur, mfailed,
                 pacman, ghosts, lock, taskq, job, results, used>>
  /\ UNCHANGED apart
  /\ UNCHANGED <<direction, eaten, ai_work_ms>>
  /\ UNCHANGED timing

\* ghost_ai_worker_unsafe, after the sleep:
\* shared_stats['total_updates'] = current + 1
UnsafeWrite(w) ==
  /\ Alive
  /\ wk[w].pc = "u_write"
  /\ shared_stats' = [shared_stats EXCEPT !.total_updates = wk[w].current + 1]
  /\ wk' = [wk EXCEPT ![w].pc = "u_risk_read", ![w].current = 0]
  /\ hist' = NoteWrite(w)
  /\ UNCHANGED <<pc, parallel, show_locks, frame, si, mcur, mfailed,
                 pacman, ghosts, lock, taskq, job, results, used>>
  /\ UNCHANGED apart
  /\ UNCHANGED <<direction, eaten, ai_work_ms>>
  /\ UNCHANGED timing

\* ghost_ai_worker_unsafe, shared_stats['race_condition_risk'] += 1: the read
\* (the proxy's __getitem__)
UnsafeRiskRead(w) ==
  /\ Alive
  /\ wk[w].pc = "u_risk_read"
  /\ wk' = [wk EXCEPT ![w].pc = "u_risk_write",
                      ![w].current = shared_stats.race_condition_risk]
  /\ UNCHANGED <<pc, parallel, show_locks, frame, si, mcur, mfailed,
                 pacman, ghosts, shared_stats, lock, taskq, job, results,
                 used, hist>>
  /\ UNCHANGED apart
  /\ UNCHANGED <<direction, eaten, ai_work_ms>>
  /\ UNCHANGED timing

\* ghost_ai_worker_unsafe, shared_stats['race_condition_risk'] += 1: the write
\* (the proxy's __setitem__), and the function returns
UnsafeRiskWrite(w) ==
  /\ Alive
  /\ wk[w].pc = "u_risk_write"
  /\ shared_stats' = [shared_stats EXCEPT
                        !.race_condition_risk = wk[w].current + 1]
  /\ Return(w)
  /\ hist' = [NoteWrite(w) EXCEPT !.nUnguarded = @ + 1]
  /\ UNCHANGED <<pc, parallel, show_locks, frame, si, mcur, mfailed,
                 pacman, ghosts, lock, taskq, job, used>>
  /\ UNCHANGED apart
  /\ UNCHANGED <<direction, eaten, ai_work_ms>>
  /\ UNCHANGED timing


(***************************************************************************)
(* Specification.                                                          *)
(***************************************************************************)
Next ==
  \/ KeySpace
  \/ KeyL
  \/ KeyU
  \/ KeyR
  \/ ResetProcessIds
  \/ ResetRaceRisk
  \/ \E keys \in SUBSET ArrowKeys :
       \/ update_ghosts_parallel(keys)
       \/ update_ghosts_sequential(keys)
  \/ Collect
  \/ Timeout
  \/ SeqMove
  \/ SeqAcquire
  \/ SeqRead
  \/ SeqWrite
  \/ SeqFail
  \/ SeqRelease
  \/ SeqDone
  \/ \E w \in Workers :
       \/ Take(w)
       \/ Acquire(w)
       \/ SafeRead(w)
       \/ SafeWrite(w)
       \/ SafeGetPids(w)
       \/ SafePutPids(w)
       \/ SafeFail(w)
       \/ Release(w)
       \/ UnsafeRead(w)
       \/ UnsafeWrite(w)
       \/ UnsafeRiskRead(w)
       \/ UnsafeRiskWrite(w)

Spec == Init /\ [][Next]_vars

(***************************************************************************)
(* The game with the player moving in the frame of a tick while the        *)
(* workers race.                                                           *)
(***************************************************************************)
MoveLimits ==
  [ticks |-> MaxMoveTicks, events |-> 1, timeouts |-> 1, faults |-> 1,
   moves |-> MaxMoveFrames, incidents |-> 2, slow |-> 0, store |-> FALSE]

MoveInit ==
  /\ Constructed
  /\ limit = MoveLimits
  /\ memo = ChaseCache(MoveLimits)

MoveSpec == MoveInit /\ [][Next]_vars

(***************************************************************************)
(* The game with the workers racing on the store, the counter of the store *)
(* at the start of each tick being remembered.                             *)
(***************************************************************************)
RaceLimits ==
  [ticks |-> MaxRaceTicks, events |-> 1, timeouts |-> 1, faults |-> 0,
   moves |-> 0, incidents |-> 2, slow |-> 0, store |-> TRUE]

RaceInit ==
  /\ Constructed
  /\ limit = RaceLimits
  /\ memo = ChaseCache(RaceLimits)

\* the steps of a game in parallel mode with no key but U, no arrow key and no
\* failure in a critical section
RaceNext ==
  \/ KeyU
  \/ ResetProcessIds
  \/ ResetRaceRisk
  \/ update_ghosts_parallel({})
  \/ Collect
  \/ Timeout
  \/ \E w \in Workers :
       \/ Take(w)
       \/ Acquire(w)
       \/ SafeRead(w)
       \/ SafeWrite(w)
       \/ SafeGetPids(w)
       \/ SafePutPids(w)
       \/ Release(w)
       \/ UnsafeRead(w)
       \/ UnsafeWrite(w)
       \/ UnsafeRiskRead(w)
       \/ UnsafeRiskWrite(w)

RaceSpec == RaceInit /\ [][RaceNext]_vars

(***************************************************************************)
(* bfs_pathfind on its own: a ghost at a start cell chases a goal that     *)
(* does not move, each tick taking the step bfs_pathfind returns, as       *)
(* ghost.set_pos does with the result's next_pos.                          *)
(***************************************************************************)
\* where a chase starts: the ghost start positions and the player's
PathStarts ==
  {START_POSITIONS[k] : k \in 1..Len(START_POSITIONS)} \cup {PacStart}

\* the goals: passable cells (the player's start, the opening in the top wall,
\* two corners), walls (a border corner, a cell of a wall row, a random wall)
\* and cells outside the grid
PathGoals ==
  { PacStart, <<GRID_W \div 2, 0>>, <<1, 1>>, <<GRID_W - 2, GRID_H - 2>>,
    <<0, 0>>, <<2, 3>>, <<6, 16>>,
    <<-1, 1>>, <<GRID_W, GRID_H - 2>>, <<GRID_W \div 2, -1>>,
    <<1, GRID_H>> }

PathInit ==
  /\ GameConstructed
  /\ limit = Limits
  /\ memo = NoChaseCache
  /\ mz = NoMazeRun
  /\ an = NoAnalysis
  /\ \E s \in PathStarts, g \in PathGoals :
       pf = [start |-> s, goal |-> g, cur |-> s, calls |-> 0, done |-> FALSE]

\* one tick of the chase: next_pos = bfs_pathfind(ghost_pos, pacman_pos). The
\* chase is followed up to the first call that does not move the ghost.
Chase ==
  /\ ~pf.done
  /\ pf.calls < MaxCalls
  /\ LET next_pos == bfs_pathfind(pf.cur, pf.goal)
     IN  pf' = [pf EXCEPT !.cur = next_pos, !.calls = @ + 1,
                          !.done = (next_pos = pf.cur)]
  /\ UNCHANGED <<pc, parallel, show_locks, frame, si, mcur, mfailed, pacman,
                 ghosts, shared_stats, lock, taskq, wk, job, results, used,
                 hist, ai_times, sequential_time, parallel_time, direction,
                 eaten, ai_work_ms, limit, mz, an, memo>>

PathNext == Chase

PathSpec == PathInit /\ [][PathNext]_vars

(***************************************************************************)
(* generate_maze on its own, for the seeds whose draws fall on a few cells *)
(* of the range of random.randint, its corners among them.                 *)
(***************************************************************************)
\* the cells random.randint(2, GRID_W - 3), random.randint(2, GRID_H - 3) can
\* draw
DrawRange == (2..(GRID_W - 3)) \X (2..(GRID_H - 3))

\* the cells the draws of the seeds looked at fall on: the corners of the
\* range, the cell under the opening of the top wall and a cell of a wall row
DrawCells ==
  { <<2, 2>>, <<GRID_W - 3, 2>>, <<2, GRID_H - 3>>,
    <<GRID_W - 3, GRID_H - 3>>, <<GRID_W \div 2, 2>>, <<5, 3>> } \cap DrawRange

\* generate_maze is entered and random.seed has been called
MazeInit ==
  /\ GameConstructed
  /\ limit = Limits
  /\ memo = NoChaseCache
  /\ pf = NoChase
  /\ an = NoAnalysis
  /\ mz = [pc |-> "draw", cells |-> {}, draws |-> 0, maze |-> <<>>]

NotMaze ==
  <<pc, parallel, show_locks, frame, si, mcur, mfailed, pacman, ghosts,
    shared_stats, lock, taskq, wk, job, results, used, hist, ai_times,
    sequential_time, parallel_time, direction, eaten, ai_work_ms, limit, pf,
    an, memo>>

\* one pass of the loop "for _ in range(30)": a cell is drawn
RandomDraw ==
  /\ mz.pc = "draw"
  /\ mz.draws < MAZE_DRAWS
  /\ \E c \in DrawCells :
       mz' = [mz EXCEPT !.cells = @ \cup {c}, !.draws = @ + 1]
  /\ UNCHANGED NotMaze

\* the loop has ended: the top wall is opened and the maze is returned
MazeReturn ==
  /\ mz.pc = "draw"
  /\ mz.draws = MAZE_DRAWS
  /\ mz' = [mz EXCEPT !.pc = "done", !.maze = generate_maze(mz.cells)]
  /\ UNCHANGED NotMaze

MazeNext ==
  \/ RandomDraw
  \/ MazeReturn

MazeSpec == MazeInit /\ [][MazeNext]_vars

(***************************************************************************)
(* The analysis tool (src/analytics.py): main and load_csv.                *)
(***************************************************************************)
\* what a row holds in its mode column, and in its numeric columns: numbers
\* in all of them, a text that is no number in one of them, or nothing in one
\* of them (a row shorter than the header, which csv.DictReader fills with
\* None)
RowModes == {"parallel", "sequential", "other"}

RowFields == {"number", "text", "missing"}

Rows == [mode : RowModes, fields : RowFields]

RECURSIVE SeqsUpTo(_, _)
SeqsUpTo(S, n) ==
  IF n = 0 THEN {<<>>}
  ELSE LET shorter == SeqsUpTo(S, n - 1)
       IN  shorter \cup {Append(q, x) : q \in shorter, x \in S}

\* float() and int() of a field of the row
convert(fields) ==
  CASE fields = "number" -> "ok"
    [] fields = "text" -> "ValueError"
    [] fields = "missing" -> "TypeError"

\* data = {'parallel': [], 'sequential': []}, the rows held by their index
EmptyData == [parallel |-> <<>>, sequential |-> <<>>]

\* main is entered: the file csv_file exists or not, with its data rows (an
\* empty file and a file with a header only have none), and matplotlib is
\* installed or not
AnalyticsInit ==
  /\ GameConstructed
  /\ limit = Limits
  /\ memo = NoChaseCache
  /\ pf = NoChase
  /\ mz = NoMazeRun
  /\ \E exists \in BOOLEAN, has_matplotlib \in BOOLEAN,
        rows \in SeqsUpTo(Rows, MaxRows) :
       /\ ~exists => rows = <<>>
       /\ an = [pc |-> "main", exists |-> exists, rows |-> rows,
                HAS_MATPLOTLIB |-> has_matplotlib, k |-> 1,
                data |-> EmptyData, loaded |-> FALSE, stats |-> "none",
                error |-> "none", report |-> FALSE, charts |-> FALSE]

NotAnalysis ==
  <<pc, parallel, show_locks, frame, si, mcur, mfailed, pacman, ghosts,
    shared_stats, lock, taskq, wk, job, results, used, hist, ai_times,
    sequential_time, parallel_time, direction, eaten, ai_work_ms, limit, pf,
    mz, memo>>

\* main: "if not os.path.exists(csv_file)" and its branch for a file that is
\* not there: the demo statistics, and data = None
FileMissing ==
  /\ an.pc = "main"
  /\ ~an.exists
  /\ an' = [an EXCEPT !.pc = "outputs", !.stats = "demo",
                      !.error = "File not found"]
  /\ UNCHANGED NotAnalysis

\* main: the else branch, up to the loop of load_csv
FileFound ==
  /\ an.pc = "main"
  /\ an.exists
  /\ an' = [an EXCEPT !.pc = "load_csv"]
  /\ UNCHANGED NotAnalysis

\* load_csv: one pass of "for row in reader"
ReadRow ==
  /\ an.pc = "load_csv"
  /\ an.k <= Len(an.rows)
  /\ LET row == an.rows[an.k]
         raised == convert(row.fields)
     IN  an' = CASE raised = "ok" ->
                    [an EXCEPT !.k = @ + 1,
                               !.data = IF row.mode \in DOMAIN an.data
                                        THEN [@ EXCEPT ![row.mode] =
                                                Append(@, an.k)]
                                        ELSE @]
                 [] raised = "ValueError" ->
                    \* except (ValueError, KeyError): continue
                    [an EXCEPT !.k = @ + 1]
                 [] raised = "TypeError" ->
                    \* no handler: the exception leaves load_csv and main
                    [an EXCEPT !.pc = "crashed", !.error = "TypeError"]
  /\ UNCHANGED NotAnalysis

\* load_csv returns data, and main tests it
Loaded ==
  /\ an.pc = "load_csv"
  /\ an.k > Len(an.rows)
  /\ IF Len(an.data.parallel) = 0 /\ Len(an.data.sequential) = 0
     THEN \* print("[ERROR] No valid data found in CSV file."); return
          an' = [an EXCEPT !.pc = "done", !.loaded = TRUE,
                           !.error = "No valid data"]
     ELSE \* stats = calculate_stats(data)
          an' = [an EXCEPT !.pc = "outputs", !.loaded = TRUE,
                           !.stats = "calculated"]
  /\ UNCHANGED NotAnalysis

\* main: print_report(stats)
Report ==
  /\ an.pc = "outputs"
  /\ an' = [an EXCEPT !.pc = "charts", !.report = TRUE]
  /\ UNCHANGED NotAnalysis

\* main: generate_charts(stats) if matplotlib is installed, and the rest
Charts ==
  /\ an.pc = "charts"
  /\ an' = [an EXCEPT !.pc = "done", !.charts = an.HAS_MATPLOTLIB]
  /\ UNCHANGED NotAnalysis

AnalyticsNext ==
  \/ FileMissing
  \/ FileFound
  \/ ReadRow
  \/ Loaded
  \/ Report
  \/ Charts

AnalyticsSpec == AnalyticsInit /\ [][AnalyticsNext]_vars

(***************************************************************************)
(* The game with the pool's workers held up for the whole run: every       *)
(* parallel tick ends by the timeout of async_result.get, and the run goes *)
(* on for more ticks than ai_times keeps.                                  *)
(***************************************************************************)
TimingLimits ==
  [ticks |-> MaxTimedTicks, events |-> MaxTimedEvents,
   timeouts |-> MaxTimedTicks, faults |-> 0, moves |-> 0,
   incidents |-> MaxTimedTicks + MaxTimedEvents, slow |-> MaxTimedSlow,
   store |-> FALSE]

TimingInit ==
  /\ Constructed
  /\ limit = TimingLimits
  /\ memo = ChaseCache(TimingLimits)

TimingNext ==
  \/ KeySpace
  \/ KeyR
  \/ ResetProcessIds
  \/ ResetRaceRisk
  \/ update_ghosts_parallel({})
  \/ update_ghosts_sequential({})
  \/ Timeout
  \/ SeqMove
  \/ SeqAcquire
  \/ SeqRead
  \/ SeqWrite
  \/ SeqRelease
  \/ SeqDone

TimingSpec == TimingInit /\ [][TimingNext]_vars

(***************************************************************************)
(* The game played until the ghosts reach the player: the player moves,    *)
(* the modes and the workload are changed, the ticks are sequential ones   *)
(* and parallel ones that end by the timeout, the workers being held up.   *)
(***************************************************************************)
PlayLimits ==
  [ticks |-> MaxPlayTicks, events |-> MaxPlayEvents,
   timeouts |-> MaxPlayTicks, faults |-> 0, moves |-> MaxPlayMoves,
   incidents |-> MaxPlayTicks + MaxPlayEvents, slow |-> 0, store |-> FALSE]

PlayInit ==
  /\ Constructed
  /\ limit = PlayLimits
  /\ memo = ChaseCache(PlayLimits)

PlayNext ==
  \/ KeySpace
  \/ KeyL
  \/ KeyU
  \/ KeyR
  \/ KeyPlus
  \/ KeyMinus
  \/ ResetProcessIds
  \/ ResetRaceRisk
  \/ \E keys \in SUBSET ArrowKeys :
       \/ MoveFrame(keys)
       \/ update_ghosts_parallel(keys)
       \/ update_ghosts_sequential(keys)
  \/ Timeout
  \/ SeqMove
  \/ SeqAcquire
  \/ SeqRead
  \/ SeqWrite
  \/ SeqRelease
  \/ SeqDone

PlaySpec == PlayInit /\ [][PlayNext]_vars

(***************************************************************************)
(* The game played until the ghosts reach the player while tasks of a      *)
(* parallel tick that has timed out are still in the pool: the first tick  *)
(* is a parallel one with locks, SPACE then selects sequential mode.       *)
(***************************************************************************)
CatchLimits ==
  [ticks |-> MaxCatchTicks, events |-> 1, timeouts |-> 1, faults |-> 0,
   moves |-> 0, incidents |-> 2, slow |-> 0, store |-> FALSE]

CatchInit ==
  /\ Constructed
  /\ limit = CatchLimits
  /\ memo = ChaseCache(CatchLimits)

CatchNext ==
  \/ KeySpace
  \/ ResetProcessIds
  \/ ResetRaceRisk
  \/ update_ghosts_parallel({})
  \/ update_ghosts_sequential({})
  \/ Timeout
  \/ SeqMove
  \/ SeqAcquire
  \/ SeqRead
  \/ SeqWrite
  \/ SeqRelease
  \/ SeqDone
  \/ \E w \in Workers :
       \/ Take(w)
       \/ Acquire(w)
       \/ SafeRead(w)
       \/ SafeWrite(w)
       \/ SafeGetPids(w)
       \/ SafePutPids(w)
       \/ Release(w)

CatchSpec == CatchInit /\ [][CatchNext]_vars

(***************************************************************************)
(* The game with keys pressed between a few ticks: the workload is         *)
(* changed, the player moves, the modes are toggled and the game is reset. *)
(***************************************************************************)
ToggleLimits ==
  [ticks |-> MaxToggleTicks, events |-> MaxToggleEvents,
   timeouts |-> MaxToggleTicks, faults |-> 0, moves |-> MaxToggleMoves,
   incidents |-> MaxToggleTicks + MaxToggleEvents, slow |-> 0,
   store |-> FALSE]

ToggleInit ==
  /\ Constructed
  /\ limit = ToggleLimits
  /\ memo = ChaseCache(ToggleLimits)

ToggleSpec == ToggleInit /\ [][PlayNext]_vars

(***************************************************************************)
(* The workload keys on their own: the game loop sees presses of + and -   *)
(* only.                                                                   *)
(***************************************************************************)
WorkloadLimits ==
  [ticks |-> 0, events |-> MaxPresses, timeouts |-> 0, faults |-> 0,
   moves |-> 0, incidents |-> MaxPresses, slow |-> 0, store |-> FALSE]

WorkloadInit ==
  /\ Constructed
  /\ limit = WorkloadLimits
  /\ memo = NoChaseCache

WorkloadNext ==
  \/ KeyPlus
  \/ KeyMinus

WorkloadSpec == WorkloadInit /\ [][WorkloadNext]_vars

(***************************************************************************)
(* Properties.                                                             *)
(***************************************************************************)
\* reset_shared_stats is not in progress
Settled == pc \notin {"reset2", "reset3"}

\* the game loop is not between the start of a ghost's update and the write of
\* total_updates for it
SeqAtRest == pc \notin {"seq_acquire", "seq_read", "seq_write"}

\* the processes that are inside a lock-protected update of the store
InCritical ==
  {w \in Workers :
     wk[w].pc \in {"s_read", "s_write", "s_pids", "s_putpids", "release"}}
  \cup (IF show_locks /\ pc \in {"seq_read", "seq_write", "seq_release"}
        THEN {MainPid} ELSE {})

\* the list s as a set
Elems(s) == {s[k] : k \in 1..Len(s)}

\* every update since the store was last reset was a guarded one, begun after
\* that reset, and none of them failed
GuardedSinceReset ==
  /\ show_locks
  /\ hist.cleanReset
  /\ ~hist.faultSince
  /\ Settled

\* every update since the store was last reset was an unguarded one run by the
\* pool, begun after that reset, and the pool is at rest (a tick boundary)
UnguardedAtRest ==
  /\ parallel
  /\ ~show_locks
  /\ hist.cleanReset
  /\ Settled
  /\ PoolIdle

\* every update since the store was last reset was made by the game loop in
\* sequential mode, and the loop is not inside one
SequentialAtRest ==
  /\ ~parallel
  /\ hist.cleanReset
  /\ ~hist.faultSince
  /\ Settled
  /\ SeqAtRest

\* C1: guarded protocol, counter exactness. From a freshly reset store (no
\* update begun before the reset is still in progress), whenever no process is
\* inside the lock-protected update, total_updates equals the number of guarded
\* updates completed since, whether pool workers (parallel mode) or the game
\* loop (sequential mode) made them and however they interleaved.
C1_GuardedCounterExact ==
  (GuardedSinceReset /\ lock = {})
    => shared_stats.total_updates = hist.nGuarded

\* C1, the case: both workers have completed guarded updates, more than one
\* tick's worth in all
C1_Witness ==
  /\ GuardedSinceReset
  /\ lock = {}
  /\ parallel
  /\ hist.participants = Workers
  /\ hist.nGuarded > NUM_GHOSTS

\* C2: guarded protocol, worker set exactness. From a freshly reset store,
\* whenever no process is inside the lock-protected update, process_ids holds
\* exactly the identifiers of the processes that completed a guarded update
\* since (pool workers or the game loop), each once.
C2_WorkerSetExact ==
  (GuardedSinceReset /\ lock = {})
    => /\ Elems(shared_stats.process_ids) = hist.participants
       /\ Len(shared_stats.process_ids) = Cardinality(hist.participants)

\* C3: unguarded protocol in parallel mode. At a tick boundary after N
\* unguarded completions from a freshly reset store, race_condition_risk = N.
C3_RaceEventsExact ==
  UnguardedAtRest => shared_stats.race_condition_risk = hist.nUnguarded

\* C4: unguarded protocol, lost update. At a tick boundary after N unguarded
\* completions from a freshly reset store total_updates is at most N, and it is
\* less than N only if some worker read total_updates while another had read
\* it and not yet written it back; the witness shows that this happens.
C4_LostUpdateByOverlap ==
  UnguardedAtRest
    => /\ shared_stats.total_updates <= hist.nUnguarded
       /\ shared_stats.total_updates < hist.nUnguarded => hist.overlap

\* C4, the case: a tick boundary at which total_updates has increased by less
\* than the number of unguarded completions
C4_Witness ==
  /\ UnguardedAtRest
  /\ hist.nUnguarded >= 2
  /\ shared_stats.total_updates < hist.nUnguarded

\* C5: unguarded protocol, counter ordering. At every tick boundary reached by
\* unguarded parallel completions from a freshly reset store,
\* total_updates <= race_condition_risk.
C5_CounterOrdering ==
  UnguardedAtRest
    => shared_stats.total_updates <= shared_stats.race_condition_risk

\* C6: a timeout applies the partial results. When the wait of a parallel tick
\* ends with some results missing, every ghost whose task has delivered its
\* result gets the new position, the worker's id and one more update, and the
\* other ghosts keep their position.
C6_TimeoutAppliesPartial ==
  [][(pc = "wait" /\ pc' # "wait" /\ DOMAIN results # Ghosts)
       => \A i \in Ghosts :
            IF i \in DOMAIN results /\ results[i].ok
            THEN /\ ghosts'[i].pos = results[i].next_pos
                 /\ ghosts'[i].last_process_id = results[i].process_id
                 /\ ghosts'[i].update_count = ghosts[i].update_count + 1
            ELSE ghosts'[i].pos = ghosts[i].pos]_vars

\* C7: a toggle or a game reset leaves the store at {0, empty, 0}, and no write
\* of a task dispatched before the reset lands in the store after it.
C7_ResetIsolated ==
  [][/\ (pc = "reset3" /\ pc' = "events")
          => shared_stats' = [total_updates |-> 0, process_ids |-> <<>>,
                              race_condition_risk |-> 0]
     /\ ~hist'.staleLanded]_vars

\* C8: sequential execution makes the two protocols indistinguishable on
\* total_updates. In sequential mode, from a freshly reset store, whenever the
\* game loop is not inside the update of a ghost, total_updates equals the
\* number of ghost updates the loop has made, with locks on and with locks off.
C8_SequentialExact ==
  SequentialAtRest => shared_stats.total_updates = hist.nSeq

\* C8, the case: more than one tick's worth of sequential updates with locks
\* off
C8_Witness ==
  /\ SequentialAtRest
  /\ ~show_locks
  /\ hist.nSeq > NUM_GHOSTS

\* C9: in sequential mode with locks off every ghost update applies the
\* unguarded protocol: race_condition_risk counts the ghost updates made.
C9_SequentialRaceEvents ==
  (SequentialAtRest /\ ~show_locks)
    => shared_stats.race_condition_risk = hist.nSeq

\* C10: the guarded critical section is mutually exclusive and always
\* released. At most one process holds the lock; the processes that hold it are
\* exactly those inside the lock-protected update, so a process that has left
\* the update, normally or by a failure inside it, does not hold the lock.
C10_MutualExclusion ==
  /\ Cardinality(lock) <= 1
  /\ lock = InCritical

\* C10, the case: a worker's update has failed inside the critical section,
\* the worker has returned, and another process holds the lock
C10_Witness ==
  /\ \E i \in DOMAIN results :
       /\ ~results[i].ok
       /\ wk[results[i].process_id].pc = "idle"
       /\ lock # {}

\* C11: results are matched to agents by index, not by completion order. When
\* a parallel tick completes, in whatever order its tasks have finished, the
\* result applied to ghost i was computed from ghost i's own position at the
\* start of the tick: the ghost moves to the next step from that position
\* towards the player, and its last_process_id is the worker of that result.
C11_ResultsByIndex ==
  [][(pc = "wait" /\ pc' = "events" /\ DOMAIN results = Ghosts)
       => \A i \in Ghosts :
            /\ results[i].ghost_pos = ghosts[i].pos
            /\ results[i].process_id \in Workers
            /\ ghosts'[i].pos = NextStep(ghosts[i].pos, pacman)
            /\ ghosts'[i].last_process_id = results[i].process_id
            /\ ghosts'[i].update_count = ghosts[i].update_count + 1]_vars

\* C11, the case: the first tick has been applied although the task of ghost 2
\* finished before the task of ghost 1. Worker 1 ran ghost 1's task and worker
\* 2 ghost 2's, each as its first task, and process_ids, which every worker
\* extends inside its update, has worker 2 before worker 1.
C11_Witness ==
  /\ pc = "events"
  /\ used.ticks = 1
  /\ used.events = 0
  /\ hist.appliedTick = 1
  /\ ghosts[1].last_process_id = 1
  /\ ghosts[2].last_process_id = 2
  /\ shared_stats.process_ids = <<2, 1>>
  /\ \A i \in Ghosts : ghosts[i].pos = NextStep(GhostStart(i), PacStart)

\* C12: a timed-out tick is recoverable and its late results are discarded.
\* Whenever a ghost's position, last_process_id or update_count changes, it is
\* by a sequential update, by a reset of the game, or by the results of the
\* tick the game loop is waiting for, which has not timed out and all of whose
\* results come from its own tasks.
C12_LateResultsDiscarded ==
  [][(\E i \in Ghosts : ghosts'[i] # ghosts[i])
       => \/ pc = "seq"
          \/ pc' = "reset2"
          \/ /\ pc = "wait"
             /\ job = used.ticks
             /\ job \notin hist.timedOut
             /\ DOMAIN results = Ghosts
             /\ \A i \in Ghosts :
                  /\ results[i].job = job
                  /\ ghosts'[i].pos = results[i].next_pos]_vars

\* C12, the case: a tick has timed out, every task of it has finished since,
\* and a later tick has been applied
C12_Witness ==
  /\ pc = "events"
  /\ PoolIdle
  /\ hist.timedOut # {}
  /\ \A t \in hist.timedOut : t < hist.appliedTick
  /\ \A i \in Ghosts : ghosts[i].update_count = 1

\* C13: speedup is reported only from real measurements. The speedup of
\* get_game_state is not zero only if a sequential tick and a parallel tick
\* have both been timed, and then it is the time of the most recent sequential
\* tick divided by the time of the most recent parallel tick.
C13_SpeedupFromMeasurements ==
  speedup[1] # 0
    => /\ hist.lastSeq > 0
       /\ hist.lastPar > 0
       /\ speedup[1] * hist.lastPar = speedup[2] * hist.lastSeq

\* C14: the efficiency divisor is the size of the pool. Whenever the speedup
\* is shown, the efficiency shown with it (a percentage) is the speedup divided
\* by num_workers = min(NUM_GHOSTS, max(1, cpu_count)).
C14_EfficiencyByPoolSize ==
  (sequential_time > 0 /\ parallel_time > 0)
    => efficiency[1] * speedup[2] * num_workers
         = 100 * speedup[1] * efficiency[2]

\* the passable cells of the maze
PassableCells ==
  {c \in (0..(GRID_W - 1)) \X (0..(GRID_H - 1)) : Passable(c[1], c[2])}

\* two cells are 4-adjacent
Adjacent(a, b) ==
  (IF a[1] > b[1] THEN a[1] - b[1] ELSE b[1] - a[1])
    + (IF a[2] > b[2] THEN a[2] - b[2] ELSE b[2] - a[2]) = 1

\* the distances to g over 4-connected passable cells, by flooding from g:
\* frontier holds the cells at distance d, seen the cells at distance < d,
\* and f their distances
RECURSIVE Flood(_, _, _, _)
Flood(frontier, seen, d, f) ==
  IF frontier = {} THEN f
  ELSE LET reached == seen \cup frontier
       IN  Flood({c \in PassableCells \ reached :
                    \E q \in frontier : Adjacent(c, q)},
                 reached, d + 1, f @@ [c \in frontier |-> d])

DistTable ==
  [g \in PathGoals |->
     IF Passable(g[1], g[2]) THEN Flood({g}, {}, 0, <<>>) ELSE <<>>] @@ <<>>

\* a cell from which the goal g cannot be reached has no distance to it
Reachable(c, g) == c \in DOMAIN DistTable[g]

Dist(c, g) == DistTable[g][c]

\* C15: the next step is a shortest-path step. For a passable start and a goal
\* reachable from it, bfs_pathfind returns the start when start = goal, and
\* otherwise a passable cell of the grid that is 4-adjacent to the start and one
\* step nearer to the goal; so a chase of a goal that does not move is at
\* distance dist(start, goal) - k after k calls, and at the goal after
\* dist(start, goal) calls.
C15_ShortestPathStep ==
  [][(pf'.calls = pf.calls + 1 /\ Reachable(pf.cur, pf.goal))
       => /\ IF pf.cur = pf.goal
             THEN pf'.cur = pf.cur
             ELSE /\ Passable(pf'.cur[1], pf'.cur[2])
                  /\ Adjacent(pf'.cur, pf.cur)
                  /\ Dist(pf'.cur, pf.goal) = Dist(pf.cur, pf.goal) - 1
          /\ Dist(pf'.cur, pf.goal)
               = (IF pf'.calls < Dist(pf.start, pf.goal)
                  THEN Dist(pf.start, pf.goal) - pf'.calls ELSE 0)]_vars

\* a chase across the maze has arrived, with the last of its calls
C15_Witness ==
  /\ pf.start = <<1, 1>>
  /\ pf.goal = <<GRID_W - 2, GRID_H - 2>>
  /\ pf.cur = pf.goal
  /\ pf.calls = Dist(pf.start, pf.goal)
  /\ pf.calls >= GRID_W + GRID_H - 6

\* C16: a goal that cannot be reached is a no-move, not an error. Where the
\* goal is not reachable from the start over 4-connected passable cells (a wall
\* and a cell outside the grid included), bfs_pathfind ends and returns the
\* start.
C16_UnreachableIsNoMove ==
  [][(pf'.calls = pf.calls + 1 /\ ~Reachable(pf.cur, pf.goal))
       => pf'.cur = pf.cur /\ pf'.cur = pf.start]_vars

\* the call has returned for a goal that is a wall inside the grid
C16_Witness ==
  /\ pf.calls = 1
  /\ pf.done
  /\ pf.cur = pf.start
  /\ pf.start = PacStart
  /\ in_bounds(pf.goal[1], pf.goal[2])
  /\ ~Passable(pf.goal[1], pf.goal[2])
  /\ ~Reachable(pf.cur, pf.goal)

\* a ghost-update tick has been dispatched and its frame has not ended
InTick == pc \notin {"events", "reset2", "reset3"}

\* the ticks that have ended since ai_times was last cleared
TicksSinceClear == used.ticks - hist.clearTick - (IF InTick THEN 1 ELSE 0)

\* C17: the timing history is a bounded FIFO window. ai_times never holds more
\* than 30 samples; every tick that ends appends one sample, and the oldest is
\* evicted when that would make 31, so ai_times is the most recent min(k, 30)
\* samples in the order they were taken, k being the ticks that have ended
\* since ai_times was last cleared.
C17_TimingWindow ==
  LET k == Len(hist.samples)
      n == IF k < WINDOW THEN k ELSE WINDOW
  IN  /\ Len(ai_times) <= WINDOW
      /\ k = TicksSinceClear
      /\ ai_times = SubSeq(hist.samples, k - n + 1, k)

\* one tick more than the window keeps has ended since ai_times was cleared,
\* and the first sample taken after the clear, a slow one, has been evicted
C17_Witness ==
  /\ Len(hist.samples) = WINDOW + 1
  /\ hist.clearTick > 0
  /\ hist.samples[1] = 20
  /\ Len(ai_times) = WINDOW
  /\ \A j \in 1..WINDOW : ai_times[j] = 10

\* the game loop is at "with self.lock" of update_ghosts_sequential and cannot
\* enter: a pool worker holds the lock
BlockedOnLock == pc = "seq_acquire" /\ lock # {}

\* C18: every tick's dispatch returns control. Each per-tick update (parallel
\* or sequential, locks on or off, also after a timed-out tick whose stragglers
\* still run) returns to the game loop, and the control thread blocks nowhere
\* but in the wait for the tick's own worker completions, which the timeout
\* bounds: in particular it is never held at the lock by a worker.
C18_BlocksOnlyOnTickResults ==
  ~BlockedOnLock

\* the cells of the first and last row and column
Border ==
  {c \in (0..(GRID_W - 1)) \X (0..(GRID_H - 1)) :
     c[1] = 0 \/ c[2] = 0 \/ c[1] = GRID_W - 1 \/ c[2] = GRID_H - 1}

\* the cell generate_maze opens in the top wall
Opening == <<GRID_W \div 2, 0>>

\* C19: the grid is bordered by walls. In the maze generate_maze returns, for
\* every seed, every cell with x = 0, x = GRID_W - 1, y = 0 or y = GRID_H - 1
\* is a wall.
C19_BorderAllWalls ==
  mz.pc = "done" => \A c \in Border : mz.maze[c[2]][c[1]] = 1

\* C19, amended: in the maze generate_maze returns, for every seed, every cell
\* of the border is a wall but the cell (GRID_W // 2, 0) of the top row, which
\* is open.
C19_BorderWallsButOpening ==
  mz.pc = "done"
    => \A c \in Border : mz.maze[c[2]][c[1]] = (IF c = Opening THEN 0 ELSE 1)

\* a maze has been returned for draws that fell on the four corners of the
\* range and on the cell below the opening
C19_Witness ==
  /\ mz.pc = "done"
  /\ mz.draws = MAZE_DRAWS
  /\ {<<2, 2>>, <<GRID_W - 3, GRID_H - 3>>, <<GRID_W - 3, 2>>,
      <<2, GRID_H - 3>>} \subseteq mz.cells
  /\ \A c \in mz.cells : mz.maze[c[2]][c[1]] = 1
  /\ mz.maze[Opening[2]][Opening[1]] = 0

\* the rows of the file that are records: numbers in the numeric columns and
\* a mode that is parallel or sequential
ValidRows ==
  {j \in 1..Len(an.rows) :
     an.rows[j].fields = "number" /\ an.rows[j].mode \in DOMAIN EmptyData}

\* C20: the analysis falls back to the demonstration data on missing or empty
\* input. When the run of the tool has ended for a file that is missing, or
\* that is there and holds no valid record (no row, or only rows that are
\* skipped), the statistics are the built-in demo statistics, the text report
\* has been produced, and so have the charts when matplotlib is installed.
C20_DemoFallback ==
  (an.pc = "done" /\ (~an.exists \/ ValidRows = {}))
    => /\ an.stats = "demo"
       /\ an.report
       /\ an.HAS_MATPLOTLIB => an.charts

\* the rows of the file with numbers in all numeric columns and the mode m, by
\* their index, in file order
WellFormed(m) ==
  SelectSeq([j \in 1..Len(an.rows) |-> j],
            LAMBDA j : an.rows[j].fields = "number" /\ an.rows[j].mode = m)

\* C21: malformed records are skipped, not fatal. For any rows of the file, a
\* row with a missing field or with a text that is no number in a numeric
\* column is dropped and loading goes on: load_csv is never left by an
\* exception, and the data it returns are the well-formed rows, in file order,
\* grouped by their mode.
C21_MalformedSkipped ==
  /\ an.pc # "crashed"
  /\ an.loaded => \A m \in DOMAIN an.data : an.data[m] = WellFormed(m)

\* C22: all agents of a tick chase the same target snapshot. In parallel and
\* in sequential mode the next step of every ghost in a tick is computed for
\* the player's position of the start of the tick and from the ghost's own
\* position of the start of the tick: the tasks of a parallel tick carry these
\* positions, every ghost that a tick updates gets the step for them, and the
\* player does not move while a tick is in progress.
C22_SameSnapshot ==
  [][/\ (pc = "events" /\ InTick')
          => /\ hist'.snap.pac = pacman'
             /\ \A i \in Ghosts : hist'.snap.gs[i] = ghosts'[i].pos
     /\ pc' = "wait"
          => \A k \in 1..Len(taskq') :
               taskq'[k].job = job'
                 => /\ taskq'[k].ppos = hist'.snap.pac
                    /\ taskq'[k].gpos = hist'.snap.gs[taskq'[k].idx]
     /\ \A i \in Ghosts :
          ghosts'[i].update_count = ghosts[i].update_count + 1
            => ghosts'[i].pos = NextStep(hist.snap.gs[i], hist.snap.pac)
     /\ (InTick /\ pc' # "reset2") => pacman' = pacman]_vars

\* a parallel tick has been applied whose frame moved the player: every ghost
\* stands on the step towards the cell the player moved to
C22_Witness ==
  /\ pc = "events"
  /\ used.ticks = 1
  /\ used.moves = 1
  /\ pacman # PacStart
  /\ \A i \in Ghosts :
       /\ ghosts[i].update_count = 1
       /\ ghosts[i].pos = NextStep(GhostStart(i), pacman)
  /\ ghosts[1].last_process_id # MainPid

\* the order (+x, -x, +y, -y)
FixedOrder == << <<1, 0>>, <<-1, 0>>, <<0, 1>>, <<0, -1>> >>

\* the k-th neighbour of c in that order
Neighbour(c, k) == <<c[1] + FixedOrder[k][1], c[2] + FixedOrder[k][2]>>

\* the k-th neighbour of c lies on a shortest path from c to g
OnShortestPath(c, g, k) ==
  /\ Reachable(Neighbour(c, k), g)
  /\ Dist(Neighbour(c, k), g) = Dist(c, g) - 1

\* the first neighbour of c, in the order, that lies on a shortest path to g
FirstOnShortestPath(c, g) ==
  LET k == CHOOSE k \in 1..4 :
             /\ OnShortestPath(c, g, k)
             /\ \A j \in 1..(k - 1) : ~OnShortestPath(c, g, j)
  IN  Neighbour(c, k)

\* C23: pathfinding is deterministic with fixed tie-breaking. The cell that
\* bfs_pathfind returns depends on the grid, the start and the goal only, and
\* where several neighbours of the start lie on shortest paths to the goal it is
\* the first of them in the order (+x, -x, +y, -y).
C23_FixedTieBreaking ==
  [][(/\ pf'.calls = pf.calls + 1
      /\ Reachable(pf.cur, pf.goal)
      /\ pf.cur # pf.goal)
       => /\ pf'.cur = FirstOnShortestPath(pf.cur, pf.goal)
          /\ pf'.cur = bfs_pathfind(pf.cur, pf.goal)]_vars

\* the first call of a chase has returned the +x neighbour of a start whose +y
\* neighbour lies on a shortest path as well
C23_Witness ==
  /\ pf.calls = 1
  /\ OnShortestPath(pf.start, pf.goal, 1)
  /\ OnShortestPath(pf.start, pf.goal, 3)
  /\ pf.cur = Neighbour(pf.start, 1)

\* C25: tick application is all-or-nothing per agent set. At every tick
\* boundary all ghosts have the same update_count; a tick that completes
\* increments the update_count of every ghost by exactly one (a collision at
\* the end of its frame then resets them to 0); while a parallel tick waits for
\* its results, and when it times out, no ghost's position, last_process_id or
\* update_count changes.
C25_AllOrNothing ==
  [][/\ ~InTick'
          => \A i, j \in Ghosts :
               ghosts'[i].update_count = ghosts'[j].update_count
     /\ (InTick /\ pc' = "events")
          => IF pc = "wait" /\ DOMAIN results # Ghosts
             THEN /\ ghosts' = ghosts
                  /\ \A i \in Ghosts :
                       /\ ghosts'[i].update_count = hist.snap.counts[i]
                       /\ ghosts'[i].pos = hist.snap.gs[i]
             ELSE \A i \in Ghosts :
                    ghosts'[i].update_count = hist.snap.counts[i] + 1
     /\ (InTick /\ pc' = "reset2")
          => \A i \in Ghosts : ghosts'[i].update_count = 0
     /\ (pc = "wait" /\ pc' = "wait") => ghosts' = ghosts]_vars

\* of two ticks one has been applied to every ghost and the other, a parallel
\* tick of which the store shows a completed update, has timed out
C25_Witness ==
  /\ pc = "events"
  /\ used.ticks = 2
  /\ hist.timedOut # {}
  /\ hist.appliedTick # 0
  /\ shared_stats.total_updates > NUM_GHOSTS
  /\ \A i \in Ghosts : ghosts[i].update_count = 1

\* a parallel tick without locks has been dispatched while the pool had no work
\* left from earlier ticks, and all its results have arrived
CleanUnguardedTickDone ==
  /\ pc = "wait"
  /\ DOMAIN results = Ghosts
  /\ \A i \in Ghosts : results[i].ok
  /\ \A k \in 1..Len(taskq) : taskq[k].job # job
  /\ ~show_locks
  /\ hist.snap.idle

\* C26: the bounds of the racy counter per tick. In parallel mode without locks,
\* when all NUM_GHOSTS tasks of a tick have completed and no task of an earlier
\* tick was still running, total_updates is at least its value at the start of
\* the tick plus 1 and at most that value plus NUM_GHOSTS, however the reads and
\* writes of the workers interleave.
C26_RacyCounterBounds ==
  CleanUnguardedTickDone
    => /\ shared_stats.total_updates >= hist.snap.total + 1
       /\ shared_stats.total_updates <= hist.snap.total + NUM_GHOSTS

\* the second tick started from a counter that was not 0 and has lost updates:
\* its four tasks have completed and the counter has risen by 1
C26_Witness ==
  /\ CleanUnguardedTickDone
  /\ used.ticks = 2
  /\ hist.snap.total > 0
  /\ shared_stats.total_updates = hist.snap.total + 1

\* C30: the workload setting stays in range. After any sequence of presses of
\* the increase and decrease keys, starting from the initial 80 ms, ai_work_ms
\* is a multiple of 10 between 0 and 500; an increase at 500 and a decrease at
\* 0 leave it unchanged, and every other press changes it by 10.
C30_WorkloadInRange ==
  [][/\ ai_work_ms' \in 0..500
     /\ ai_work_ms' % 10 = 0
     /\ (used'.events = used.events + 1 /\ ai_work_ms \in {0, 500})
          => ai_work_ms' \in {ai_work_ms,
                              IF ai_work_ms = 0 THEN 10 ELSE 490}
     /\ (used'.events = used.events + 1 /\ ai_work_ms \notin {0, 500})
          => ai_work_ms' \in {ai_work_ms - 10, ai_work_ms + 10}]_vars

\* the setting is 500 after a number of presses that, 500 being 42 steps
\* above the initial 80, is reached only with a press at 500 that changed
\* nothing
C30_Witness ==
  /\ ai_work_ms = 500
  /\ used.events = (500 - AI_WORK_MS) \div 10 + 1

\* a position is valid: a passable cell of the grid
ValidPosition(c) == in_bounds(c[1], c[2]) /\ MAZE[c[2]][c[1]] = 0

\* the player at cell pd[1] facing pd[2] after a move by (dx, dy): a move into
\* a wall or out of the grid leaves both as they are
Moved(pd, dx, dy) ==
  IF ValidPosition(<<pd[1][1] + dx, pd[1][2] + dy>>)
  THEN << <<pd[1][1] + dx, pd[1][2] + dy>>, <<dx, dy>> >>
  ELSE pd

\* the player after a frame in which the keys are held down
AfterKeys(pd, keys) ==
  LET a == IF "LEFT" \in keys THEN Moved(pd, -1, 0) ELSE pd
      b == IF "RIGHT" \in keys THEN Moved(a, 1, 0) ELSE a
      c == IF "UP" \in keys THEN Moved(b, 0, -1) ELSE b
  IN  IF "DOWN" \in keys THEN Moved(c, 0, 1) ELSE c

C27_CollisionResets ==
  [][/\ (pc # "reset2" /\ pc' = "reset2" /\ hist'.collided)
          => /\ pacman' = PacStart
             /\ \A i \in Ghosts :
                  /\ ghosts'[i].pos = GhostStart(i)
                  /\ ghosts'[i].update_count = 0
             /\ pellets' = BASE_PELLETS
             /\ ai_times' = <<>>
     /\ (pc = "reset3" /\ pc' = "events" /\ hist.collided)
          => shared_stats' = [total_updates |-> 0, process_ids |-> <<>>,
                              race_condition_risk |-> 0]
     /\ pc' = "events" => \A i \in Ghosts : ghosts'[i].pos # pacman']_vars

\* what a mode toggle leaves alone: the timing window, the last timings, the
\* workload and the state of the ghosts and of the player
ToggleFrame ==
  /\ ai_times' = ai_times
  /\ sequential_time' = sequential_time
  /\ parallel_time' = parallel_time
  /\ ai_work_ms' = ai_work_ms
  /\ ghosts' = ghosts
  /\ pacman' = pacman
  /\ direction' = direction
  /\ pellets' = pellets

\* what a game reset leaves alone: the mode flags, the workload, the last
\* timings and the last_process_id of every ghost
ResetFrame ==
  /\ parallel' = parallel
  /\ show_locks' = show_locks
  /\ ai_work_ms' = ai_work_ms
  /\ sequential_time' = sequential_time
  /\ parallel_time' = parallel_time
  /\ \A i \in Ghosts : ghosts'[i].last_process_id = ghosts[i].last_process_id

\* what a game reset does to the ghosts, the player and the timing window
GameIsReset ==
  /\ pacman' = PacStart
  /\ \A i \in Ghosts :
       ghosts'[i].pos = GhostStart(i) /\ ghosts'[i].update_count = 0
  /\ pellets' = BASE_PELLETS
  /\ ai_times' = <<>>

\* C28: the frame conditions of toggles and resets. A key event that resets the
\* store is a mode toggle, which changes one mode flag at most and leaves the
\* timing window, the last sequential and parallel timings, the workload and
\* the state of the ghosts and of the player unchanged, or a game reset, which
\* leaves both mode flags, the workload, the last timings and every ghost's
\* last_process_id unchanged.
C28_FrameConditions ==
  [][(used'.events = used.events + 1 /\ pc' = "reset2")
       => \/ /\ parallel' # parallel
             /\ show_locks' = show_locks
             /\ ToggleFrame
          \/ /\ parallel' = parallel
             /\ show_locks' # show_locks
             /\ ToggleFrame
          \/ /\ parallel' = parallel
             /\ show_locks' = show_locks
             /\ ResetFrame
             /\ ToggleFrame \/ GameIsReset]_vars

\* SPACE has been pressed after the ticks of parallel mode, with the workload
\* changed and the player moved: the timing window still holds the samples of
\* the parallel ticks
C28_Witness ==
  /\ pc = "events"
  /\ ~parallel
  /\ used.ticks = MaxToggleTicks
  /\ hist.resetTick = used.ticks
  /\ Len(ai_times) = used.ticks
  /\ ai_work_ms # AI_WORK_MS
  /\ pacman # PacStart

\* worker w makes a step of a task of the protocol with locks (safe) or of the
\* one without
WorkerStep(w, safe) ==
  /\ wk[w].pc # "idle"
  /\ wk'[w] # wk[w]
  /\ wk[w].task.safe = safe

\* C29: each protocol touches only its own fields. No step of a guarded update,
\* by a worker or by the game loop, changes race_condition_risk, and no step of
\* an unguarded update changes process_ids; hence, between resets,
\* race_condition_risk = 0 while locks are on and process_ids is empty while
\* locks are off (the flag changes only with a reset of the store).
C29_OwnFieldsOnly ==
  [][/\ (\E w \in Workers : WorkerStep(w, TRUE))
          => shared_stats'.race_condition_risk
               = shared_stats.race_condition_risk
     /\ (\E w \in Workers : WorkerStep(w, FALSE))
          => shared_stats'.process_ids = shared_stats.process_ids
     /\ (pc \in {"seq", "seq_acquire", "seq_read", "seq_write", "seq_release"}
           /\ pc' \notin {pc, "reset2"})
          => /\ shared_stats'.race_condition_risk
                  = shared_stats.race_condition_risk
             /\ shared_stats'.process_ids = shared_stats.process_ids
     /\ (show_locks' /\ Settled')
          => shared_stats'.race_condition_risk = 0
     /\ (~show_locks' /\ Settled')
          => shared_stats'.process_ids = <<>>]_vars

=============================================================================
